---- MODULE Spec2Model ----
(***************************************************************************)
(* Model of the bare-repository engine of better-unc/mono: the ref store   *)
(* and object store over the blob store (apps/api/src/git/objects.rs), the *)
(* receive-pack handler (apps/api/src/git/pack.rs) and the receive-pack    *)
(* route with the branch-metadata projector                                *)
(* (apps/api_old/src/routes/git.rs, apps/api_old/src/git/handler.rs).      *)
(* The route of apps/api_old calls the handler and the store of its own    *)
(* git module; the git module of apps/api, of which git/handler.rs is the  *)
(* same code with the store type renamed, stands for it.                   *)
(*                                                                         *)
(* Representation.  An OID is a number 1..MaxOid; Zero is the all-zero     *)
(* OID.  The commit graph is the chain 1 <- 2 <- ... (the first parent of  *)
(* commit o is o-1, commit 1 is the root).  A ref name is the sequence of  *)
(* its path components (refs/heads/main is <<"refs","heads","main">>).     *)
(* A text blob is a record that keeps whether it ends in a newline, so     *)
(* that write_ref and the trim of read_ref are modelled by what they do.   *)
(* An optional value is a sequence of length 0 (none) or 1 (some).         *)
(*                                                                         *)
(* A put or delete of the blob store either is applied or is rejected     *)
(* (the Err of S3Client::put_object and delete_object); the database calls *)
(* of the projector succeed.  Objects become loose blobs or fully indexed  *)
(* packs only outside the push path, so the repository starts with the    *)
(* commits 1..k stored that way.                                           *)
(***************************************************************************)
EXTENDS Integers, Sequences, FiniteSets, TLC

\* ---------------------------------------------------------------- bounds
MaxOid == 2

MaxCmds == 2

MaxCmdsOverlap == 1

MaxPushes == 2

MaxLines == 2
\* the bytes of a pkt-line payload and the frames of a stream
MaxPayload == 2

MaxFrames == 2
\* the commits of a counted history and the step limit of a count
MaxHistory == 5

MaxLimit == 4
\* the time to live of a cached basic-auth user, in ticks
BasicTtl == 2

MaxChain == 12
\* the time to live of a cached advertisement, in ticks
Ttl == 2
\* the ticks a behaviour lasts
MaxTime == 3
\* the calls made on one store instance
MaxCalls == 3
\* the instruction bytes of a delta after its two sizes
MaxBody == 4

\* ------------------------------------------------------ program constants
\* resolve_ref_inner gives up when depth > 10
MaxRefDepth == 10

\* build_branch_metadata: let max_steps = 200000usize
MaxSteps == 200000
\* the iterations of resolve_object_iterative
MaxHops == 100
\* get_refs_advertisement: the cache is cleared if cache.len() > 1024
FlushLimit == 1024

\* ------------------------------------------------------------- optionals
None == <<>>

Some(x) == <<x>>

IsSome(o) == Len(o) = 1

Val(o) == o[1]

\* ------------------------------------------------------------------ OIDs
Zero == 0

OIDs == 1..MaxOid

\* The first byte of an OID, the key of the index fanout.  Two OIDs may
\* share a first byte.
FirstByte(oid) == oid \div 2

Bytes == 0..(MaxOid \div 2)

\* ------------------------------------------------------------- ref names
StartsWith(name, prefix) ==
    /\ Len(name) >= Len(prefix)
    /\ SubSeq(name, 1, Len(prefix)) = prefix

\* ref_name.starts_with("refs/")
StartsWithRefs(name) == Len(name) > 1 /\ name[1] = "refs"

\* handle_receive_pack: the ref path of a command's refname
RefPath(name) ==
    IF StartsWithRefs(name) THEN name ELSE <<"refs", "heads">> \o name

MainKey == <<"refs", "heads", "main">>

FeatureKey == <<"refs", "heads", "feature">>

TagKey == <<"refs", "tags", "v1">>

HeadKey == <<"HEAD">>

\* The refnames a client sends in commands.
RefNames == {<<"main">>, MainKey, TagKey}

ChainKey(i) == <<"refs", "heads", "c" \o ToString(i)>>

ChainKeys == {ChainKey(i) : i \in 0..(MaxChain + 1)}

RefKeys == {HeadKey, MainKey, FeatureKey, TagKey} \cup ChainKeys

\* ------------------------------------------------------------ text blobs
Absent == [kind |-> "absent", oid |-> 0, target |-> <<>>, nl |-> FALSE]

\* a blob holding a 40-hex OID, with or without a trailing newline
OidBlob(oid, nl) == [kind |-> "oid", oid |-> oid, target |-> <<>>, nl |-> nl]

\* a blob holding "ref: <target>"
SymBlob(target, nl) == [kind |-> "sym", oid |-> 0, target |-> target, nl |-> nl]

\* a blob holding neither
JunkBlob == [kind |-> "junk", oid |-> 0, target |-> <<>>, nl |-> FALSE]

\* String::trim
Trim(blob) == [blob EXCEPT !.nl = FALSE]

\* ------------------------------------------------------------- variables
VARIABLES
    refs,        \* blob store: ref key -> text blob (Absent when no blob)
    packedRefs,  \* blob store: none, or the <<name, oid>> lines of packed-refs
    loose,       \* blob store: the OIDs that have a loose object blob
    packs,       \* blob store: the pack blobs, keyed by their content
    idxs,        \* blob store: pack content -> its index blob
    meta,        \* metadata table: branch -> row
    pc,          \* per request: its position
    body,        \* per request: the request body
    updates,     \* per request: the parsed commands
    packData,    \* per request: the pack payload split off the body
    cur,         \* per request: index of the command or update at hand
    resp,        \* per request: the response, a sequence of pkt-lines
    existing,    \* per request: the metadata row read for the update at hand
    packPut,     \* per request: what the blob store answered to the pack put
    before,      \* per request: the refs when the request arrived
    lastPut,     \* ref key -> the last put or delete applied (history)
    pushes,      \* number of requests begun
    overlap,     \* whether a second request may arrive while one is in flight
    out,         \* result of the last query
    cache,       \* shared cache: branch -> kind -> none or the cached value
    rowTree,     \* metadata table: branch -> root_tree and readme_oid
    reader,      \* a read request: its position and what it has read
    redisOn,     \* whether the shared cache is configured
    clock,       \* the time (Instant::now), in ticks
    age,         \* ticks since the push request has returned (history)
    infoRefs,    \* INFO_REFS_CACHE: key -> none or (packets, instant)
    adv,         \* an info/refs request: its position and what it has built
    ttl,         \* info_refs_cache_ttl, in ticks
    otherEntries, \* INFO_REFS_CACHE: the entries of other repositories
    objectCache, \* a store instance: object_cache, OID -> none or the bytes
    packListCache, \* a store instance: pack_list_cache, none or the list
    calls,       \* number of get_object and put_object calls on the instance
    inp,         \* the arguments of a call of a pure function
    walk,        \* a get_object call on packs with deltas: its position
    sessionCache, \* SessionCache: token -> none or the cached user
    basicAuthCache \* BasicAuthCache: key -> none or the cached user

blobVars == <<refs, packedRefs, loose, packs, idxs>>

cacheVars == <<cache, rowTree, reader, redisOn>>

advVars == <<clock, age, infoRefs, adv, ttl, otherEntries>>

storeVars == <<objectCache, packListCache, calls>>

callVars == <<inp, walk, sessionCache, basicAuthCache>>

vars == <<refs, packedRefs, loose, packs, idxs, meta, pc, body, updates,
          packData, cur, resp, existing, packPut, before, lastPut, pushes,
          overlap, out, cacheVars, advVars, storeVars, callVars>>

\* =================================================================
\* Ref store (objects.rs)
\* =================================================================

\* R2GitStore::read_ref: the blob at <prefix>/<name>, trimmed
ReadRef(rs, name) ==
    IF name \in DOMAIN rs /\ rs[name].kind # "absent"
    THEN Some(Trim(rs[name]))
    ELSE None

\* R2GitStore::write_ref: put "<oid>\n"
WriteRef(rs, key, oid) == [rs EXCEPT ![key] = OidBlob(oid, TRUE)]

\* S3Client::delete_object on a ref key
DeleteRef(rs, key) == [rs EXCEPT ![key] = Absent]

\* R2GitStore::read_packed_refs: the (name, oid) lines in file order
ReadPackedRefs(pr) == pr

\* first packed entry with this name
RECURSIVE PackedLookup(_, _)
PackedLookup(lines, name) ==
    IF lines = <<>> THEN None
    ELSE IF Head(lines)[1] = name THEN Some(Head(lines)[2])
    ELSE PackedLookup(Tail(lines), name)

\* resolve_ref_inner with the depth test one step early (depth >= 10)
RECURSIVE ResolveRefInnerEarly(_, _, _, _)
ResolveRefInnerEarly(rs, pr, name, depth) ==
    IF depth >= MaxRefDepth THEN None
    ELSE LET content == ReadRef(rs, name) IN
         IF IsSome(content) /\ Val(content).kind = "sym"
         THEN ResolveRefInnerEarly(rs, pr, Val(content).target, depth + 1)
         ELSE IF IsSome(content) /\ Val(content).kind = "oid"
         THEN Some(Val(content).oid)
         ELSE IF IsSome(ReadPackedRefs(pr))
         THEN PackedLookup(Val(ReadPackedRefs(pr)), name)
         ELSE None

\* R2GitStore::resolve_ref_inner
RECURSIVE ResolveRefInner(_, _, _, _)
ResolveRefInner(rs, pr, name, depth) ==
    IF depth > MaxRefDepth THEN None
    ELSE LET content == ReadRef(rs, name) IN
         IF IsSome(content) /\ Val(content).kind = "sym"
         THEN ResolveRefInner(rs, pr, Val(content).target, depth + 1)
         ELSE IF IsSome(content) /\ Val(content).kind = "oid"
         THEN Some(Val(content).oid)
         ELSE IF IsSome(ReadPackedRefs(pr))
         THEN PackedLookup(Val(ReadPackedRefs(pr)), name)
         ELSE None

\* R2GitStore::resolve_ref
ResolveRef(rs, pr, name) == ResolveRefInner(rs, pr, name, 0)

\* The loose ref keys in the order the blob store lists them (key order;
\* the chain keys are listed by index).
KeyList ==
    <<HeadKey>> \o [i \in 1..(MaxChain + 2) |-> ChainKey(i - 1)]
        \o <<FeatureKey, MainKey, TagKey>>

\* S3Client::list_objects(<prefix>/<refprefix>): the keys under a ref prefix
RECURSIVE ListKeys(_, _, _)
ListKeys(rs, keys, prefix) ==
    IF keys = <<>> THEN <<>>
    ELSE LET k == Head(keys)
             rest == ListKeys(rs, Tail(keys), prefix)
         IN IF StartsWith(k, prefix) /\ rs[k].kind # "absent"
            THEN <<k>> \o rest ELSE rest

\* list_refs, first loop: the packed entries whose name has the prefix
RECURSIVE PackedUnder(_, _)
PackedUnder(lines, prefix) ==
    IF lines = <<>> THEN <<>>
    ELSE LET l == Head(lines)
             rest == PackedUnder(Tail(lines), prefix)
         IN IF StartsWith(l[1], prefix)
            THEN <<[name |-> l[1], value |-> OidBlob(l[2], FALSE)]>> \o rest
            ELSE rest

HasName(entries, name) == \E i \in 1..Len(entries) : entries[i].name = name

\* list_refs, second loop: a loose ref is appended unless the list already
\* holds an entry of its name
RECURSIVE AddLoose(_, _, _)
AddLoose(rs, keys, acc) ==
    IF keys = <<>> THEN acc
    ELSE LET k == Head(keys) IN
         IF HasName(acc, k)
         THEN AddLoose(rs, Tail(keys), acc)
         ELSE AddLoose(rs, Tail(keys),
                       Append(acc, [name |-> k, value |-> Trim(rs[k])]))

\* R2GitStore::list_refs
ListRefs(rs, pr, prefix) ==
    LET packed == IF IsSome(ReadPackedRefs(pr))
                  THEN PackedUnder(Val(ReadPackedRefs(pr)), prefix)
                  ELSE <<>>
    IN AddLoose(rs, ListKeys(rs, KeyList, prefix), packed)

\* =================================================================
\* Object store (objects.rs) and pack index (pack.rs, objects.rs)
\* =================================================================

\* The object named by an OID (content-addressed: the OID fixes the bytes).
Object(oid) == [type |-> "commit", id |-> oid, parent |-> oid - 1]

\* A pack payload that starts with the signature: its objects in pack
\* order; short marks a payload of fewer than 12 bytes.
Pack(objs) == [objs |-> objs, short |-> FALSE]

ShortPack == [objs |-> <<>>, short |-> TRUE]

ZeroFanout == [b \in Bytes |-> 0]

\* create_pack_index: magic, version 2, a zero-filled fanout and the two
\* checksums; no SHA table and no offset table
CreatePackIndex(pack_data) ==
    IF pack_data.short THEN None
    ELSE Some([magic |-> TRUE, version |-> 2, fanout |-> ZeroFanout,
               shas |-> <<>>, offsets |-> <<>>])

\* find_object_in_index, the loop over [start_idx, end_idx)
RECURSIVE FindFrom(_, _, _, _)
FindFrom(idx, oid, i, end_idx) ==
    IF i >= end_idx THEN None
    ELSE IF i + 1 > Len(idx.shas) THEN None
    ELSE IF idx.shas[i + 1] = oid
    THEN IF i + 1 > Len(idx.offsets) THEN None ELSE Some(idx.offsets[i + 1])
    ELSE FindFrom(idx, oid, i + 1, end_idx)

\* find_object_in_index
FindObjectInIndex(idx, oid) ==
    IF ~idx.magic \/ idx.version # 2 THEN None
    ELSE LET first_byte == FirstByte(oid)
             start_idx == IF first_byte = 0 THEN 0
                          ELSE idx.fanout[first_byte - 1]
             end_idx == idx.fanout[first_byte]
         IN FindFrom(idx, oid, start_idx, end_idx)

\* read_pack_object / extract_object_with_deltas at an offset (offsets are
\* the positions of the entries)
ExtractObject(pack, offset) ==
    IF offset \in 1..Len(pack.objs) THEN Some(Object(pack.objs[offset]))
    ELSE None

\* R2GitStore::get_from_pack: the indices whose lookup, pack read and
\* extraction all succeed
PackHits(st, oid) ==
    {p \in DOMAIN st.idxs :
        /\ IsSome(FindObjectInIndex(st.idxs[p], oid))
        /\ p \in st.packs
        /\ IsSome(ExtractObject(p, Val(FindObjectInIndex(st.idxs[p], oid))))}

GetFromPack(st, oid) ==
    IF PackHits(st, oid) = {} THEN None
    ELSE LET p == CHOOSE q \in PackHits(st, oid) : TRUE
         IN ExtractObject(p, Val(FindObjectInIndex(st.idxs[p], oid)))

\* R2GitStore::get_object on a fresh store instance (one is made per
\* request): the loose blob, then the packs
GetObject(st, oid) ==
    IF oid \in st.loose THEN Some(Object(oid)) ELSE GetFromPack(st, oid)

\* the object-store part of the blob store
Store == [loose |-> loose, packs |-> packs, idxs |-> idxs]

\* =================================================================
\* Branch metadata (api_old: git/handler.rs, routes/git.rs)
\* =================================================================

NoRow == [present |-> FALSE, head_oid |-> 0, commit_count |-> 0,
          last_commit_oid |-> 0]

Row(head, count, last) ==
    [present |-> TRUE, head_oid |-> head, commit_count |-> count,
     last_commit_oid |-> last]

\* trim_start_matches("refs/heads/"): the prefix is removed as often as it
\* occurs
RECURSIVE TrimHeads(_)
TrimHeads(name) ==
    IF StartsWith(name, <<"refs", "heads">>) /\ Len(name) > 2
    THEN TrimHeads(SubSeq(name, 3, Len(name)))
    ELSE name

\* update_metadata_for_updates: the branch a refname stands for
BranchOf(ref_name) ==
    IF StartsWith(ref_name, <<"refs", "heads">>) /\ Len(ref_name) > 2
    THEN Some(TrimHeads(ref_name))
    ELSE IF StartsWithRefs(ref_name) THEN None
    ELSE Some(ref_name)

Branches == {Val(BranchOf(n)) : n \in {m \in RefNames : IsSome(BranchOf(m))}}

\* parse_commit: the commit and its first parent
ParseCommit(obj, oid) ==
    [oid |-> oid,
     parent |-> IF obj.parent = 0 THEN None ELSE Some(obj.parent)]

\* get_commit_by_oid
GetCommitByOid(st, oid) ==
    IF IsSome(GetObject(st, oid))
    THEN Some(ParseCommit(Val(GetObject(st, oid)), oid))
    ELSE None

\* count_commits_until, the loop
RECURSIVE CountLoop(_, _, _, _, _)
CountLoop(st, current, count, stop_oid, max_steps) ==
    IF ~IsSome(current)
    THEN IF ~IsSome(stop_oid) THEN Some(count) ELSE None
    ELSE IF IsSome(stop_oid) /\ Val(current) = Val(stop_oid) THEN Some(count)
    ELSE IF count >= max_steps THEN None
    ELSE IF ~IsSome(GetCommitByOid(st, Val(current))) THEN None
    ELSE CountLoop(st, Val(GetCommitByOid(st, Val(current))).parent,
                   count + 1, stop_oid, max_steps)

\* count_commits_until
CountCommitsUntil(st, start_oid, stop_oid, max_steps) ==
    CountLoop(st, Some(start_oid), 0, stop_oid, max_steps)

\* build_branch_metadata: the commit count, for a step limit max_steps
CommitCountWithin(st, old_oid, new_oid, row, max_steps) ==
    LET increment ==
            IF row.present /\ row.head_oid = old_oid /\ old_oid # Zero
            THEN CountCommitsUntil(st, new_oid, Some(old_oid), max_steps)
            ELSE None
        total == CountCommitsUntil(st, new_oid, None, max_steps)
    IN IF IsSome(increment) THEN row.commit_count + Val(increment)
       ELSE IF IsSome(total) THEN Val(total)
       ELSE 0

\* build_branch_metadata: the commit count (max_steps = 200000)
CommitCount(st, old_oid, new_oid, row) ==
    CommitCountWithin(st, old_oid, new_oid, row, MaxSteps)

\* build_branch_metadata
BuildBranchMetadata(st, old_oid, new_oid, row) ==
    IF ~IsSome(GetCommitByOid(st, new_oid)) THEN None
    ELSE Some(Row(new_oid, CommitCount(st, old_oid, new_oid, row),
                  Val(GetCommitByOid(st, new_oid)).oid))

\* =================================================================
\* Shared cache of tree listings and file contents (handler.rs, redis.rs)
\* =================================================================

\* what the cache keeps per branch: the listing of the root tree (path "")
\* and the content of one file
Kinds == {"tree", "file"}

\* The value get_tree or get_file computes from the commit `head`: the
\* entries of its tree, or the content and OID of the file in it.  Commits
\* differ in their trees, so the value names the commit it was computed from.
Listing(head) == [from |-> head]

\* an empty list of entries (Vec::default)
EmptyTree == Listing(Zero)

NoCache == [b \in Branches |-> [k \in Kinds |-> None]]

\* RedisClient::get_string on tree_key / file_key: none without a cache
CacheGet(c, on, b, kind) == IF on THEN c[b][kind] ELSE None

\* RedisClient::set_ex_string on tree_key / file_key
CacheSet(c, on, b, kind, value) ==
    IF on /\ b \in DOMAIN c THEN [c EXCEPT ![b][kind] = Some(value)] ELSE c

\* RedisClient::delete_pattern on tree_key(prefix, branch, "*") and
\* file_key(prefix, branch, "*")
DeletePattern(c, b) ==
    IF b \in DOMAIN c THEN [c EXCEPT ![b] = [k \in Kinds |-> None]] ELSE c

\* get_tree / get_file after the cache lookup missed: resolve the branch,
\* load the commit and its tree; none when either is missing
ReadHead(rs, pr, b) == ResolveRef(rs, pr, <<"refs", "heads">> \o b)

ComputeFrom(st, head) ==
    IF IsSome(head) /\ IsSome(GetObject(st, Val(head)))
    THEN Some(Listing(Val(head)))
    ELSE None

\* get_tree(store, branch, ""), start to end: the entries it returns and
\* the cache it leaves
GetTree(rs, pr, st, c, on, b) ==
    LET cached == CacheGet(c, on, b, "tree")
        computed == ComputeFrom(st, ReadHead(rs, pr, b))
    IN IF IsSome(cached) THEN [entries |-> cached, cache |-> c]
       ELSE IF IsSome(computed)
       THEN [entries |-> computed,
             cache |-> CacheSet(c, on, b, "tree", Val(computed))]
       ELSE [entries |-> None, cache |-> c]

\* build_branch_metadata: root_tree and readme_oid, from
\* get_tree(store, branch, "").await.unwrap_or_default()
RootTree(entries) == IF IsSome(entries) THEN Val(entries) ELSE EmptyTree

\* invalidate_branch_cache: the branch an update names
InvalidatedBranch(ref_name) ==
    IF StartsWith(ref_name, <<"refs", "heads">>)
    THEN TrimHeads(ref_name)
    ELSE ref_name

\* =================================================================
\* receive-pack: request bodies and responses (pack.rs)
\* =================================================================

\* r1 is a request; r2 is a request that arrives while r1 is in flight
Reqs == {"r1", "r2"}

InFlight(r) == pc[r] \notin {"idle", "done"}

\* a pkt-line of the command section: <old> <new> <refname>
CmdLine(old, new, name) == [old |-> old, new |-> new, name |-> name]

\* the OID a direct ref blob holds, or the zero OID: the old-oid of a client
\* that read the ref when its request arrived
OldOid(rs, key) == IF rs[key].kind = "oid" THEN rs[key].oid ELSE Zero

\* The command lines clients send: any refname and any new-oid.
Lines(rs) ==
    {CmdLine(OldOid(rs, RefPath(nm)), n, nm) :
        nm \in RefNames, n \in {Zero} \cup OIDs}

SeqsUpTo(S, n) == UNION {[1..k -> S] : k \in 0..n}

\* The pack payloads clients send: none (no signature in the body), a
\* truncated one (fewer than 12 bytes), or a pack of all the commits.
PackChoices ==
    {None, Some(ShortPack), Some(Pack([i \in 1..MaxOid |-> i]))}

\* A refname whose bytes hold the four signature bytes: refs/heads/PACKAGE.
SigName == <<"refs", "heads", "PACKAGE">>

\* body[i..i+4] == pack_signature, for a position inside a refname
HoldsSignature(name) == name = SigName

\* The command lines that create the branch of that name.
SigLines == {CmdLine(Zero, n, SigName) : n \in OIDs}

\* The command lines of the pushes at hand: a client that has such a branch
\* sends its lines as well.
SentLines(rs) ==
    IF inp.op = "push" THEN Lines(rs) \cup SigLines ELSE Lines(rs)

Bodies(rs, n) ==
    {[cmds |-> c, pack |-> p] : c \in SeqsUpTo(SentLines(rs), n),
                                p \in PackChoices}

\* a scan that takes the end of the command section for the pack start even
\* when no signature follows
FindPackStartAlways(b) == Some(Len(b.cmds) + 1)

\* handle_receive_pack: the scan for the signature, which stops at the first
\* match: in the refname of a command line when one holds the four bytes,
\* else at the pack payload.  The result is the position in the body: the
\* index of that command line, or Len(b.cmds) + 1 for the payload.
FindPackStart(b) ==
    IF \E i \in 1..Len(b.cmds) : HoldsSignature(b.cmds[i].name)
    THEN Some(CHOOSE i \in 1..Len(b.cmds) :
                /\ HoldsSignature(b.cmds[i].name)
                /\ \A j \in 1..(i - 1) : ~HoldsSignature(b.cmds[j].name))
    ELSE IF IsSome(b.pack) THEN Some(Len(b.cmds) + 1) ELSE None

\* handle_receive_pack and parse_pkt_lines: body[..pack_start], of which the
\* complete pkt-lines are read (a line cut by the split is longer than what
\* is left, and ends the reading)
CommandSection(b) == SubSeq(b.cmds, 1, Val(FindPackStart(b)) - 1)

\* handle_receive_pack: body[pack_start..], the bytes from the pack start on
\* (nothing is left when the body ends with the command section).  From a
\* match inside a refname on, the bytes are the rest of the command section
\* and the payload: 12 bytes or more unless the body ends with that line.
PackDataOf(b) ==
    IF IsSome(FindPackStart(b)) /\ Val(FindPackStart(b)) <= Len(b.cmds)
    THEN [objs |-> <<>>,
          short |-> Val(FindPackStart(b)) = Len(b.cmds) /\ ~IsSome(b.pack)]
    ELSE IF IsSome(b.pack) THEN Val(b.pack) ELSE ShortPack

\* handle_receive_pack: the parsed commands (old, new, refname), in body
\* order (every line of Lines has three fields and OIDs of 40 characters)
ParseCommands(lines) ==
    [i \in 1..Len(lines) |->
        [old |-> lines[i].old, new |-> lines[i].new, name |-> lines[i].name]]

PktLine(tag, name) == [tag |-> tag, name |-> name]

Flush == PktLine("0000", <<>>)

\* b"000eunpack ok\n0000"
MinResponse == <<PktLine("unpack ok", <<>>), Flush>>

\* "0019ng unpack error {}\n0000"
NgResponse == <<PktLine("ng unpack error", <<>>), Flush>>

\* handle_receive_pack: the status report
ReportResponse(ups) ==
    <<PktLine("unpack ok", <<>>)>>
        \o [i \in 1..Len(ups) |-> PktLine("ok", ups[i].name)]
        \o <<Flush>>

\* lastPut: who applied the last put or delete of a ref since the store was
\* last without a request in flight, the new-oid it carried, and the value it
\* replaced
NoPut == [req |-> "none", new |-> 0, over |-> 0]

NoBody == [cmds |-> <<>>, pack |-> None]

\* receive_pack (route): after handle_receive_pack has returned, the
\* projector runs when the update list is not empty
RouteAfterHandler(ups) == IF ups = <<>> THEN "done" ELSE "meta"

\* handle_receive_pack: after the index put, the ref loop, or the report
\* when there is no command
AfterIndex(ups) == IF ups = <<>> THEN "done" ELSE "refs"

\* A request arrives; handle_receive_pack splits and parses its body.
Begin(r) ==
    /\ ~InFlight(r)
    /\ pushes < MaxPushes
    /\ IF r = "r1" THEN ~InFlight("r2") ELSE overlap /\ InFlight("r1")
    /\ pushes' = pushes + 1
    /\ \E b \in Bodies(refs, IF overlap THEN MaxCmdsOverlap ELSE MaxCmds) :
        /\ body' = [body EXCEPT ![r] = b]
        /\ IF ~IsSome(FindPackStart(b))
           THEN /\ updates' = [updates EXCEPT ![r] = <<>>]
                /\ packData' = [packData EXCEPT ![r] = ShortPack]
                /\ resp' = [resp EXCEPT ![r] = MinResponse]
                /\ pc' = [pc EXCEPT ![r] = "done"]
           ELSE /\ updates' = [updates EXCEPT ![r] =
                                  ParseCommands(CommandSection(b))]
                /\ packData' = [packData EXCEPT ![r] = PackDataOf(b)]
                /\ resp' = [resp EXCEPT ![r] = <<>>]
                /\ pc' = [pc EXCEPT ![r] = "put_pack"]
    /\ cur' = [cur EXCEPT ![r] = 1]
    /\ existing' = [existing EXCEPT ![r] = NoRow]
    /\ packPut' = [packPut EXCEPT ![r] = "none"]
    /\ before' = [before EXCEPT ![r] = refs]
    /\ lastPut' = IF \E q \in Reqs : InFlight(q)
                  THEN lastPut ELSE [k \in RefKeys |-> NoPut]
    /\ UNCHANGED <<refs, packedRefs, loose, packs, idxs, meta, overlap, out,
                   cacheVars, advVars,
                   storeVars, callVars>>

\* a pack put whose failure is answered but does not end the handler: the
\* ref loop still runs
PutPackContinue(r) ==
    /\ pc[r] = "put_pack"
    /\ \E ok \in BOOLEAN :
        IF ok
        THEN /\ packs' = packs \cup {packData[r]}
             /\ packPut' = [packPut EXCEPT ![r] = "ok"]
             /\ resp' = IF IsSome(CreatePackIndex(packData[r]))
                           \/ updates[r] # <<>>
                        THEN resp
                        ELSE [resp EXCEPT ![r] = ReportResponse(updates[r])]
             /\ pc' = [pc EXCEPT ![r] =
                          IF IsSome(CreatePackIndex(packData[r]))
                          THEN "put_idx" ELSE AfterIndex(updates[r])]
        ELSE /\ packs' = packs
             /\ packPut' = [packPut EXCEPT ![r] = "failed"]
             /\ resp' = [resp EXCEPT ![r] = NgResponse]
             /\ pc' = [pc EXCEPT ![r] = AfterIndex(updates[r])]
    /\ UNCHANGED <<refs, packedRefs, loose, idxs, meta, body, updates,
                   packData, cur, existing, before, lastPut, pushes,
                   overlap, out,
                   cacheVars, advVars,
                   storeVars, callVars>>

\* put_object of the pack blob: accepted, or rejected by the blob store
PutPack(r) ==
    /\ pc[r] = "put_pack"
    /\ \E ok \in BOOLEAN :
        IF ok
        THEN /\ packs' = packs \cup {packData[r]}
             /\ packPut' = [packPut EXCEPT ![r] = "ok"]
             /\ resp' = IF IsSome(CreatePackIndex(packData[r]))
                           \/ updates[r] # <<>>
                        THEN resp
                        ELSE [resp EXCEPT ![r] = ReportResponse(updates[r])]
             /\ pc' = [pc EXCEPT ![r] =
                          IF IsSome(CreatePackIndex(packData[r]))
                          THEN "put_idx" ELSE AfterIndex(updates[r])]
        ELSE /\ packs' = packs
             /\ packPut' = [packPut EXCEPT ![r] = "failed"]
             /\ resp' = [resp EXCEPT ![r] = NgResponse]
             /\ pc' = [pc EXCEPT ![r] = RouteAfterHandler(updates[r])]
    /\ UNCHANGED <<refs, packedRefs, loose, idxs, meta, body, updates,
                   packData, cur, existing, before, lastPut, pushes,
                   overlap, out,
                   cacheVars, advVars,
                   storeVars, callVars>>

\* put_object of the generated index; its result is discarded
PutIdx(r) ==
    /\ pc[r] = "put_idx"
    /\ \E ok \in BOOLEAN :
        idxs' = IF ok
                THEN [p \in DOMAIN idxs \cup {packData[r]} |->
                        IF p = packData[r]
                        THEN Val(CreatePackIndex(packData[r])) ELSE idxs[p]]
                ELSE idxs
    /\ resp' = IF updates[r] = <<>>
               THEN [resp EXCEPT ![r] = ReportResponse(updates[r])]
               ELSE resp
    /\ pc' = [pc EXCEPT ![r] = AfterIndex(updates[r])]
    /\ UNCHANGED <<refs, packedRefs, loose, packs, meta, body, updates,
                   packData, cur, existing, packPut, before, lastPut,
                   pushes, overlap, out,
                   cacheVars, advVars,
                   storeVars, callVars>>

\* a ref loop that compares the stored value with the command's old-oid and
\* rejects the command when they differ
RefStepCompare(r) ==
    /\ pc[r] = "refs"
    /\ LET cmd == updates[r][cur[r]]
           key == RefPath(cmd.name)
           last == cur[r] = Len(updates[r])
           match == OldOid(refs, key) = cmd.old
       IN /\ \E ok \in BOOLEAN :
               IF ok /\ match
               THEN /\ refs' = IF cmd.new = Zero THEN DeleteRef(refs, key)
                               ELSE WriteRef(refs, key, cmd.new)
                    /\ lastPut' = [lastPut EXCEPT ![key] =
                                      [req |-> r, new |-> cmd.new,
                                       over |-> OldOid(refs, key)]]
               ELSE UNCHANGED <<refs, lastPut>>
          /\ cur' = [cur EXCEPT ![r] = IF last THEN 1 ELSE @ + 1]
          /\ resp' = IF last
                     THEN [resp EXCEPT ![r] =
                             IF match THEN ReportResponse(updates[r])
                             ELSE <<PktLine("unpack ok", <<>>),
                                    PktLine("ng", cmd.name), Flush>>]
                     ELSE resp
          /\ pc' = [pc EXCEPT ![r] =
                       IF last THEN RouteAfterHandler(updates[r]) ELSE "refs"]
    /\ UNCHANGED <<packedRefs, loose, packs, idxs, meta, body, updates,
                   packData, existing, packPut, before, pushes, overlap, out,
                   cacheVars, advVars,
                   storeVars, callVars>>

\* One iteration of the ref loop: delete_object or write_ref of the command
\* at hand; the result is discarded.  After the last command the report is
\* built and the handler returns to the route.
RefStep(r) ==
    /\ pc[r] = "refs"
    /\ LET cmd == updates[r][cur[r]]
           key == RefPath(cmd.name)
           last == cur[r] = Len(updates[r])
       IN /\ \E ok \in BOOLEAN :
               IF ok
               THEN /\ refs' = IF cmd.new = Zero THEN DeleteRef(refs, key)
                               ELSE WriteRef(refs, key, cmd.new)
                    /\ lastPut' = [lastPut EXCEPT ![key] =
                                      [req |-> r, new |-> cmd.new,
                                       over |-> OldOid(refs, key)]]
               ELSE UNCHANGED <<refs, lastPut>>
          /\ cur' = [cur EXCEPT ![r] = IF last THEN 1 ELSE @ + 1]
          /\ resp' = IF last
                     THEN [resp EXCEPT ![r] = ReportResponse(updates[r])]
                     ELSE resp
          /\ pc' = [pc EXCEPT ![r] =
                       IF last THEN RouteAfterHandler(updates[r]) ELSE "refs"]
    /\ UNCHANGED <<packedRefs, loose, packs, idxs, meta, body, updates,
                   packData, existing, packPut, before, pushes, overlap, out,
                   cacheVars, advVars,
                   storeVars, callVars>>

\* The request is cancelled while it waits for the blob store or for the
\* database: the future of the route is dropped at the await it has
\* reached, and nothing of what it has done is undone.
Cancel(r) ==
    /\ InFlight(r)
    /\ pc[r] # "cancelled"
    /\ pc' = [pc EXCEPT ![r] = "cancelled"]
    /\ UNCHANGED <<refs, packedRefs, loose, packs, idxs, meta, body, updates,
                   packData, cur, resp, existing, packPut, before, lastPut,
                   pushes, overlap, out, cacheVars, advVars, storeVars,
                   callVars>>

\* update_metadata_for_updates: on to the next update, or the request ends
NextUpdate(r) ==
    /\ cur' = [cur EXCEPT ![r] = IF @ = Len(updates[r]) THEN 1 ELSE @ + 1]
    /\ pc' = [pc EXCEPT ![r] =
                 IF cur[r] # Len(updates[r]) THEN "meta"
                 ELSE IF redisOn THEN "inval" ELSE "done"]

\* update_metadata_for_updates: an update of a ref that is no branch
MetaSkip(r) ==
    /\ pc[r] = "meta"
    /\ ~IsSome(BranchOf(updates[r][cur[r]].name))
    /\ NextUpdate(r)
    /\ UNCHANGED <<refs, packedRefs, loose, packs, idxs, meta, body, updates,
                   packData, resp, existing, packPut, before, lastPut,
                   pushes, overlap, out,
                   cacheVars, advVars,
                   storeVars, callVars>>

\* update_metadata_for_updates: delete_repo_branch_metadata
MetaDelete(r) ==
    /\ pc[r] = "meta"
    /\ IsSome(BranchOf(updates[r][cur[r]].name))
    /\ updates[r][cur[r]].new = Zero
    /\ meta' = [meta EXCEPT ![Val(BranchOf(updates[r][cur[r]].name))] = NoRow]
    /\ rowTree' = [rowTree EXCEPT
                      ![Val(BranchOf(updates[r][cur[r]].name))] = EmptyTree]
    /\ NextUpdate(r)
    /\ UNCHANGED <<refs, packedRefs, loose, packs, idxs, body, updates,
                   packData, resp, existing, packPut, before, lastPut,
                   pushes, overlap, out, cache, reader, redisOn, advVars,
                   storeVars, callVars>>

\* update_metadata_for_updates: get_repo_branch_metadata
MetaRead(r) ==
    /\ pc[r] = "meta"
    /\ IsSome(BranchOf(updates[r][cur[r]].name))
    /\ updates[r][cur[r]].new # Zero
    /\ existing' = [existing EXCEPT ![r] =
                       meta[Val(BranchOf(updates[r][cur[r]].name))]]
    /\ pc' = [pc EXCEPT ![r] = "meta_write"]
    /\ UNCHANGED <<refs, packedRefs, loose, packs, idxs, meta, body, updates,
                   packData, cur, resp, packPut, before, lastPut, pushes,
                   overlap, out,
                   cacheVars, advVars,
                   storeVars, callVars>>

\* update_metadata_for_updates: build_branch_metadata, then
\* upsert_repo_branch_metadata when a row was built
MetaWrite(r) ==
    /\ pc[r] = "meta_write"
    /\ LET cmd == updates[r][cur[r]]
           b == Val(BranchOf(cmd.name))
           built == BuildBranchMetadata(Store, cmd.old, cmd.new, existing[r])
           tree == GetTree(refs, packedRefs, Store, cache, redisOn, b)
       IN IF IsSome(built)
          THEN /\ meta' = [meta EXCEPT ![b] = Val(built)]
               /\ rowTree' = [rowTree EXCEPT ![b] = RootTree(tree.entries)]
               /\ cache' = tree.cache
          ELSE UNCHANGED <<meta, rowTree, cache>>
    /\ NextUpdate(r)
    /\ UNCHANGED <<refs, packedRefs, loose, packs, idxs, body, updates,
                   packData, resp, existing, packPut, before, lastPut,
                   pushes, overlap, out, reader, redisOn, advVars,
                   storeVars, callVars>>

\* invalidate_branch_cache: the cached listings and file contents of the
\* branch of one update are deleted
Invalidate(r) ==
    /\ pc[r] = "inval"
    /\ cache' = DeletePattern(cache,
                              InvalidatedBranch(updates[r][cur[r]].name))
    /\ cur' = [cur EXCEPT ![r] = IF @ = Len(updates[r]) THEN 1 ELSE @ + 1]
    /\ pc' = [pc EXCEPT ![r] =
                 IF cur[r] = Len(updates[r]) THEN "done" ELSE "inval"]
    /\ UNCHANGED <<refs, packedRefs, loose, packs, idxs, meta, body, updates,
                   packData, resp, existing, packPut, before, lastPut,
                   pushes, overlap, out, rowTree, reader, redisOn, advVars,
                   storeVars, callVars>>

\* =================================================================
\* Read requests (handler.rs get_tree, get_file)
\* =================================================================

Idle == [pc |-> "idle", kind |-> "tree", branch |-> <<"main">>, head |-> None]

\* get_tree / get_file: the cache lookup; a hit is returned at once
ReadBegin(kind, b) ==
    /\ reader.pc = "idle"
    /\ LET cached == CacheGet(cache, redisOn, b, kind) IN
       IF IsSome(cached)
       THEN /\ out' = [op |-> kind, arg |-> b, result |-> cached]
            /\ reader' = Idle
       ELSE /\ out' = out
            /\ reader' = [pc |-> "resolve", kind |-> kind, branch |-> b,
                          head |-> None]
    /\ UNCHANGED <<refs, packedRefs, loose, packs, idxs, meta, pc, body,
                   updates, packData, cur, resp, existing, packPut, before,
                   lastPut, pushes, overlap, cache, rowTree, redisOn, advVars,
                   storeVars, callVars>>

\* get_tree / get_file: resolve_ref of the branch
ReadResolve ==
    /\ reader.pc = "resolve"
    /\ LET head == ReadHead(refs, packedRefs, reader.branch) IN
       IF IsSome(head)
       THEN /\ reader' = [reader EXCEPT !.pc = "load", !.head = head]
            /\ out' = out
       ELSE /\ reader' = Idle
            /\ out' = [op |-> reader.kind, arg |-> reader.branch,
                       result |-> None]
    /\ UNCHANGED <<refs, packedRefs, loose, packs, idxs, meta, pc, body,
                   updates, packData, cur, resp, existing, packPut, before,
                   lastPut, pushes, overlap, cache, rowTree, redisOn, advVars,
                   storeVars, callVars>>

\* get_tree / get_file: load the commit and the tree, store the value in the
\* cache and return it
ReadLoad ==
    /\ reader.pc = "load"
    /\ LET computed == ComputeFrom(Store, reader.head) IN
       /\ out' = [op |-> reader.kind, arg |-> reader.branch,
                  result |-> computed]
       /\ cache' = IF IsSome(computed)
                   THEN CacheSet(cache, redisOn, reader.branch, reader.kind,
                                 Val(computed))
                   ELSE cache
    /\ reader' = Idle
    /\ UNCHANGED <<refs, packedRefs, loose, packs, idxs, meta, pc, body,
                   updates, packData, cur, resp, existing, packPut, before,
                   lastPut, pushes, overlap, rowTree, redisOn, advVars,
                   storeVars, callVars>>

\* a cached value reaches its time to live (CacheTtl) and is dropped
Expire(b, kind) ==
    /\ IsSome(cache[b][kind])
    /\ cache' = [cache EXCEPT ![b][kind] = None]
    /\ UNCHANGED <<refs, packedRefs, loose, packs, idxs, meta, pc, body,
                   updates, packData, cur, resp, existing, packPut, before,
                   lastPut, pushes, overlap, out, rowTree, reader, redisOn, advVars,
                   storeVars, callVars>>

\* =================================================================
\* info/refs advertisement (refs.rs)
\* =================================================================

Services == {"git-upload-pack", "git-receive-pack"}

\* the capabilities of the first line
Capabilities(service) ==
    IF service = "git-upload-pack"
    THEN <<"ofs-delta", "shallow", "no-progress", "include-tag",
           "symref=HEAD:refs/heads/main">>
    ELSE <<"report-status", "delete-refs", "ofs-delta">>

\* a pkt-line of the advertisement: "<oid> <name>\0<capabilities>\n"
AdvLine(value, name, caps) == [value |-> value, name |-> name, caps |-> caps]

AdvFlush == AdvLine(Absent, <<>>, <<"0000">>)

\* the refs under refs/heads and under refs/tags, in this order
ListedRefs(rs, pr) ==
    ListRefs(rs, pr, <<"refs", "heads">>) \o ListRefs(rs, pr, <<"refs", "tags">>)

\* an advertisement whose first line is the first listed ref also when HEAD
\* resolves
BuildAdvertisementFirstListed(rs, pr, service) ==
    IF ListedRefs(rs, pr) = <<>>
    THEN <<AdvLine(OidBlob(Zero, FALSE), <<"capabilities^{}">>,
                   Capabilities(service)), AdvFlush>>
    ELSE <<AdvLine(ListedRefs(rs, pr)[1].value, ListedRefs(rs, pr)[1].name,
                   Capabilities(service))>>
            \o [i \in 1..Len(ListedRefs(rs, pr)) |->
                   AdvLine(ListedRefs(rs, pr)[i].value,
                           ListedRefs(rs, pr)[i].name, <<>>)]
            \o <<AdvFlush>>

\* an advertisement that names HEAD whenever it resolves, also when no ref
\* is listed
BuildAdvertisementHeadFirst(rs, pr, service) ==
    IF IsSome(ResolveRef(rs, pr, HeadKey))
    THEN <<AdvLine(OidBlob(Val(ResolveRef(rs, pr, HeadKey)), FALSE), HeadKey,
                   Capabilities(service))>>
            \o [i \in 1..Len(ListedRefs(rs, pr)) |->
                   AdvLine(ListedRefs(rs, pr)[i].value,
                           ListedRefs(rs, pr)[i].name, <<>>)]
            \o <<AdvFlush>>
    ELSE BuildAdvertisementFirstListed(rs, pr, service)

\* get_refs_advertisement after the cache lookup: the refs are listed, HEAD
\* is resolved and the packets are built
BuildAdvertisement(rs, pr, service) ==
    LET listed == ListRefs(rs, pr, <<"refs", "heads">>)
                     \o ListRefs(rs, pr, <<"refs", "tags">>)
        head == ResolveRef(rs, pr, HeadKey)
        first_ref == IF IsSome(head)
                     THEN [name |-> HeadKey,
                           value |-> OidBlob(Val(head), FALSE)]
                     ELSE listed[1]
        others == SelectSeq(listed,
                            LAMBDA e : e.name # first_ref.name
                                          \/ ~IsSome(head))
    IN IF listed = <<>>
       THEN <<AdvLine(OidBlob(Zero, FALSE), <<"capabilities^{}">>,
                      Capabilities(service)), AdvFlush>>
       ELSE <<AdvLine(first_ref.value, first_ref.name,
                      Capabilities(service))>>
               \o [i \in 1..Len(others) |->
                      AdvLine(others[i].value, others[i].name, <<>>)]
               \o <<AdvFlush>>

\* The repositories of the info/refs requests, by the prefix of their
\* blobs: the one the pushes go to and another one.
RepoPrefix == "repos/u1/a.git"

OtherPrefix == "repos/u1/b.git"

Prefixes == {RepoPrefix, OtherPrefix}

\* get_refs_advertisement: format!("{}|{}", store.prefix, service)
CacheKey(prefix, service) == prefix \o "|" \o service

CacheKeys == {CacheKey(p, s) : p \in Prefixes, s \in Services}

\* The refs of the other repository: HEAD names main, and the branch
\* feature is at commit 1.
OtherRefs ==
    [k \in RefKeys |->
        IF k = HeadKey THEN SymBlob(MainKey, TRUE)
        ELSE IF k = FeatureKey THEN OidBlob(1, TRUE)
        ELSE Absent]

\* the ref blobs and the packed-refs blob under a prefix
RefsOf(prefix) == IF prefix = RepoPrefix THEN refs ELSE OtherRefs

PackedRefsOf(prefix) == IF prefix = RepoPrefix THEN packedRefs ELSE None

NoAdv ==
    [pc |-> "idle", prefix |-> RepoPrefix, service |-> "git-upload-pack",
     packets |-> <<>>]

\* a test that takes an entry for fresh up to and including its time to
\* live
FreshAtInclusive(key) ==
    /\ ttl > 0
    /\ IsSome(infoRefs[key])
    /\ clock - Val(infoRefs[key]).at <= ttl

\* the entry under a key was inserted less than the time to live ago
\* (now.duration_since(entry.1) < ttl)
FreshAt(key) ==
    /\ ttl > 0
    /\ IsSome(infoRefs[key])
    /\ clock - Val(infoRefs[key]).at < ttl

\* the cached advertisement of a service of the repository of the pushes is
\* within its time to live
Fresh(service) == FreshAt(CacheKey(RepoPrefix, service))

\* cache.len(): the entries under the keys of Prefixes and those of other
\* repositories
CacheLen(entries, others) ==
    Cardinality({k \in DOMAIN entries : IsSome(entries[k])}) + others

\* a test that lets the cache grow by one entry more
FlushesLate(len) == len > FlushLimit + 1

\* get_refs_advertisement: if cache.len() > 1024
Flushes(len) == len > FlushLimit

\* cache.insert and cache.clear: the entries under the keys of Prefixes
\* after an insert that has brought the cache to len entries
AfterInsert(entries, len) ==
    IF Flushes(len) THEN [k \in DOMAIN entries |-> None] ELSE entries

\* some reader is blocked in cache.remove while its entry reference holds
\* the read lock of the shard of its key
AnyLocked(entries) ==
    \E k \in DOMAIN entries : IsSome(entries[k]) /\ Val(entries[k]).locked

\* get_refs_advertisement: the cache lookup.  A fresh entry is returned.
\* On an old one cache.remove is called while `entry`, the reference that
\* cache.get returned, is still alive: the reference holds the read lock of
\* the shard and remove waits for its write lock, so the call blocks for
\* ever with the entry in place.
AdvBegin(prefix, service) ==
    /\ adv.pc \in {"idle", "blocked"}
    /\ IF FreshAt(CacheKey(prefix, service))
       THEN /\ out' = [op |-> "info_refs", arg |-> service,
                       prefix |-> prefix, hit |-> TRUE,
                       result |->
                          Val(infoRefs[CacheKey(prefix, service)]).packets]
            /\ adv' = NoAdv
            /\ UNCHANGED infoRefs
       ELSE IF ttl > 0 /\ IsSome(infoRefs[CacheKey(prefix, service)])
       THEN /\ out' = out
            /\ adv' = [pc |-> "blocked", prefix |-> prefix,
                       service |-> service, packets |-> <<>>]
            /\ infoRefs' = [infoRefs EXCEPT
                               ![CacheKey(prefix, service)] =
                                   Some([Val(@) EXCEPT !.locked = TRUE])]
       ELSE /\ out' = out
            /\ adv' = [pc |-> "list", prefix |-> prefix,
                       service |-> service, packets |-> <<>>]
            /\ UNCHANGED infoRefs
    /\ UNCHANGED <<refs, packedRefs, loose, packs, idxs, meta, pc, body,
                   updates, packData, cur, resp, existing, packPut, before,
                   lastPut, pushes, overlap, cacheVars, clock, age, ttl,
                   otherEntries, storeVars, callVars>>

\* get_refs_advertisement: list_refs, resolve_ref and the packets
AdvList ==
    /\ adv.pc = "list"
    /\ adv' = [adv EXCEPT !.pc = "insert",
                          !.packets = BuildAdvertisement(
                                          RefsOf(adv.prefix),
                                          PackedRefsOf(adv.prefix),
                                          adv.service)]
    /\ UNCHANGED <<refs, packedRefs, loose, packs, idxs, meta, pc, body,
                   updates, packData, cur, resp, existing, packPut, before,
                   lastPut, pushes, overlap, out, cacheVars, clock, age,
                   infoRefs, ttl, otherEntries,
                   storeVars, callVars>>

\* the cache after get_refs_advertisement has inserted its packets
Inserted ==
    [infoRefs EXCEPT ![CacheKey(adv.prefix, adv.service)] =
        Some([packets |-> adv.packets, at |-> clock, locked |-> FALSE])]

\* cache.clear while a blocked reader holds the read lock of a shard: the
\* shards before that one are cleared, then clear waits for ever.  Of the
\* entries under the keys of Prefixes those that are not locked are gone
\* (cleared is true) or all are still there.
PartlyCleared(entries, cleared) ==
    [k \in DOMAIN entries |->
        IF cleared /\ IsSome(entries[k]) /\ ~Val(entries[k]).locked
        THEN None ELSE entries[k]]

\* get_refs_advertisement with the cache switched off: the packets are
\* returned
AdvReturn ==
    /\ out' = [op |-> "info_refs", arg |-> adv.service,
               prefix |-> adv.prefix, hit |-> FALSE,
               result |-> adv.packets]
    /\ adv' = NoAdv

\* get_refs_advertisement: the packets are cached with the time of the
\* insert, the cache is cleared when it has grown beyond its limit, and the
\* packets are returned.  While a blocked reader holds the read lock of a
\* shard, the insert blocks for ever when the key is of that shard, and so
\* does the clear.
AdvInsert ==
    /\ adv.pc = "insert"
    /\ IF ttl = 0
       THEN AdvReturn /\ UNCHANGED <<infoRefs, otherEntries>>
       ELSE \E blocks \in IF AnyLocked(infoRefs) THEN BOOLEAN ELSE {FALSE},
               cleared \in IF AnyLocked(infoRefs) THEN BOOLEAN ELSE {TRUE} :
            IF blocks
            THEN /\ adv' = [adv EXCEPT !.pc = "blocked"]
                 /\ UNCHANGED <<out, infoRefs, otherEntries>>
            ELSE IF ~Flushes(CacheLen(Inserted, otherEntries))
            THEN /\ AdvReturn
                 /\ infoRefs' = Inserted
                 /\ UNCHANGED otherEntries
            ELSE IF AnyLocked(infoRefs)
            THEN /\ adv' = [adv EXCEPT !.pc = "blocked"]
                 /\ infoRefs' = PartlyCleared(Inserted, cleared)
                 /\ otherEntries' = IF cleared THEN 0 ELSE otherEntries
                 /\ UNCHANGED out
            ELSE /\ AdvReturn
                 /\ infoRefs' = AfterInsert(Inserted,
                                            CacheLen(Inserted, otherEntries))
                 /\ otherEntries' = 0
    /\ UNCHANGED <<refs, packedRefs, loose, packs, idxs, meta, pc, body,
                   updates, packData, cur, resp, existing, packPut, before,
                   lastPut, pushes, overlap, cacheVars, clock, age, ttl,
                   storeVars, callVars>>

\* get_refs_advertisement for a repository out of Prefixes, under a key the
\* cache does not hold and whose shard no blocked reader holds: the packets
\* are built, inserted and returned, unless the clear blocks
OtherInsert ==
    /\ ttl > 0
    /\ CacheLen(infoRefs, otherEntries) <= FlushLimit
    /\ \E cleared \in IF AnyLocked(infoRefs) THEN BOOLEAN ELSE {TRUE} :
        IF ~Flushes(CacheLen(infoRefs, otherEntries + 1))
        THEN /\ otherEntries' = otherEntries + 1
             /\ UNCHANGED infoRefs
        ELSE IF AnyLocked(infoRefs)
        THEN /\ infoRefs' = PartlyCleared(infoRefs, cleared)
             /\ otherEntries' = IF cleared THEN 0 ELSE otherEntries + 1
        ELSE /\ infoRefs' = AfterInsert(infoRefs,
                                        CacheLen(infoRefs, otherEntries + 1))
             /\ otherEntries' = 0
    /\ UNCHANGED <<refs, packedRefs, loose, packs, idxs, meta, pc, body,
                   updates, packData, cur, resp, existing, packPut, before,
                   lastPut, pushes, overlap, out, cacheVars, clock, age, adv,
                   ttl, storeVars, callVars>>

\* time passes
Tick ==
    /\ clock < MaxTime
    /\ clock' = clock + 1
    /\ age' = IF pc["r1"] = "done" THEN age + 1 ELSE age
    /\ UNCHANGED <<refs, packedRefs, loose, packs, idxs, meta, pc, body,
                   updates, packData, cur, resp, existing, packPut, before,
                   lastPut, pushes, overlap, out, cacheVars, infoRefs, adv,
                   ttl, otherEntries, storeVars, callVars>>

\* =================================================================
\* Session cache and basic-auth cache (auth.rs)
\* =================================================================

Tokens == {"t1"}

BasicKeys == {"k1"}

Users == {"u1", "u2"}

\* a cached user.  set_at is the time of the set (history) and locked tells
\* that a reader is blocked in cache.remove while its entry reference holds
\* the read lock of the shard.
CachedUser(user, expires_at) ==
    [user |-> user, expires_at |-> expires_at, set_at |-> clock,
     locked |-> FALSE]

\* the result of a get
GetResult(op, key, entry, result) ==
    [op |-> op, arg |-> key, result |-> result, now |-> clock,
     expires_at |-> entry.expires_at, set_at |-> entry.set_at]

\* SessionCache::set
SessionSet(token, user, expires_at) ==
    /\ ~AnyLocked(sessionCache)
    /\ sessionCache' = [sessionCache EXCEPT
                           ![token] = Some(CachedUser(user, expires_at))]
    /\ UNCHANGED <<blobVars, meta, pc, body, updates, packData, cur, resp,
                   existing, packPut, before, lastPut, pushes, overlap, out,
                   cacheVars, advVars, storeVars, inp, walk, basicAuthCache>>

\* SessionCache::get and BasicAuthCache::get: the map and the result after
\* the call.  Without an entry the result is none.  An entry that expires
\* later than now is returned.  On an expired one cache.remove is called
\* while `cached`, the reference that cache.get returned, is still alive:
\* the reference holds the read lock of the shard and remove waits for its
\* write lock, so the call blocks for ever with the entry in place.
Get(entries, key, op) ==
    IF ~IsSome(entries[key]) THEN [entries |-> entries, out |-> out]
    ELSE IF Val(entries[key]).expires_at > clock
    THEN [entries |-> entries,
          out |-> GetResult(op, key, Val(entries[key]),
                            Some(Val(entries[key]).user))]
    ELSE [entries |-> [entries EXCEPT
                          ![key] = Some([Val(@) EXCEPT !.locked = TRUE])],
          out |-> out]

\* SessionCache::get
SessionGet(token) ==
    /\ sessionCache' = Get(sessionCache, token, "session_get").entries
    /\ out' = Get(sessionCache, token, "session_get").out
    /\ UNCHANGED <<blobVars, meta, pc, body, updates, packData, cur, resp,
                   existing, packPut, before, lastPut, pushes, overlap,
                   cacheVars, advVars, storeVars, inp, walk, basicAuthCache>>

\* SessionCache::invalidate
SessionInvalidate(token) ==
    /\ ~AnyLocked(sessionCache)
    /\ sessionCache' = [sessionCache EXCEPT ![token] = None]
    /\ UNCHANGED <<blobVars, meta, pc, body, updates, packData, cur, resp,
                   existing, packPut, before, lastPut, pushes, overlap, out,
                   cacheVars, advVars, storeVars, inp, walk, basicAuthCache>>

\* SessionCache::new, the background task: the entries that have expired
\* are dropped
Sweep ==
    /\ ~AnyLocked(sessionCache)
    /\ sessionCache' = [t \in Tokens |->
                          IF IsSome(sessionCache[t])
                             /\ Val(sessionCache[t]).expires_at > clock
                          THEN sessionCache[t] ELSE None]
    /\ UNCHANGED <<blobVars, meta, pc, body, updates, packData, cur, resp,
                   existing, packPut, before, lastPut, pushes, overlap, out,
                   cacheVars, advVars, storeVars, inp, walk, basicAuthCache>>

\* BasicAuthCache::set
BasicSet(key, user) ==
    /\ ~AnyLocked(basicAuthCache)
    /\ basicAuthCache' = [basicAuthCache EXCEPT
                             ![key] = Some(CachedUser(user, clock + BasicTtl))]
    /\ UNCHANGED <<blobVars, meta, pc, body, updates, packData, cur, resp,
                   existing, packPut, before, lastPut, pushes, overlap, out,
                   cacheVars, advVars, storeVars, inp, walk, sessionCache>>

\* BasicAuthCache::get
BasicGet(key) ==
    /\ basicAuthCache' = Get(basicAuthCache, key, "basic_get").entries
    /\ out' = Get(basicAuthCache, key, "basic_get").out
    /\ UNCHANGED <<blobVars, meta, pc, body, updates, packData, cur, resp,
                   existing, packPut, before, lastPut, pushes, overlap,
                   cacheVars, advVars, storeVars, inp, walk, sessionCache>>

\* =================================================================
\* A store instance and its caches (objects.rs)
\* =================================================================

\* R2GitStore::new: both caches empty
NoObjects == [o \in OIDs |-> None]

\* get_pack_idx_files: the cached list when there is one, else the keys
\* under objects/pack that end in .idx (named here by their pack)
GetPackIdxFiles(plc, st) == IF IsSome(plc) THEN Val(plc) ELSE DOMAIN st.idxs

\* get_from_pack on an instance: only the listed indices are tried; an
\* index blob that cannot be read is passed over
ListedStore(plc, st) ==
    [st EXCEPT !.idxs = [p \in GetPackIdxFiles(plc, st) \cap DOMAIN st.idxs
                            |-> st.idxs[p]]]

\* the kinds of blob-store requests a call made
Reads(hit, in_loose, plc, st, oid) ==
    IF hit THEN {}
    ELSE IF in_loose THEN {"loose"}
    ELSE {"loose"} \cup (IF IsSome(plc) THEN {} ELSE {"list"})
            \cup (IF ListedStore(plc, st).idxs = <<>> THEN {} ELSE {"idx"})
            \cup (IF \E p \in DOMAIN ListedStore(plc, st).idxs :
                        IsSome(FindObjectInIndex(st.idxs[p], oid))
                  THEN {"pack"} ELSE {})

\* a get_object that tries the packs before the loose blob
GetObjectPacksFirst(oc, plc, st, oid) ==
    LET hit == IsSome(oc[oid])
        packed == GetFromPack(ListedStore(plc, st), oid)
        data == IF hit THEN oc[oid]
                ELSE IF IsSome(packed) THEN packed
                ELSE IF oid \in st.loose THEN Some(Object(oid))
                ELSE None
    IN [data |-> data,
        reads |-> Reads(hit, FALSE, plc, st, oid)
                     \cup (IF ~hit /\ ~IsSome(packed) THEN {"loose"} ELSE {}),
        object_cache |-> IF IsSome(data) THEN [oc EXCEPT ![oid] = data]
                         ELSE oc,
        pack_list_cache |-> IF hit THEN plc
                            ELSE Some(GetPackIdxFiles(plc, st))]

\* R2GitStore::get_object on an instance: the object cache, then the loose
\* blob, then the packs; what it returns, what it read and the caches it
\* leaves
GetObjectOn(oc, plc, st, oid) ==
    LET hit == IsSome(oc[oid])
        in_loose == oid \in st.loose
        data == IF hit THEN oc[oid]
                ELSE IF in_loose THEN Some(Object(oid))
                ELSE GetFromPack(ListedStore(plc, st), oid)
    IN [data |-> data,
        reads |-> Reads(hit, in_loose, plc, st, oid),
        object_cache |-> IF IsSome(data) THEN [oc EXCEPT ![oid] = data]
                         ELSE oc,
        pack_list_cache |-> IF hit \/ in_loose THEN plc
                            ELSE Some(GetPackIdxFiles(plc, st))]

\* a caller reads an object through the instance
StoreGet(oid) ==
    /\ calls < MaxCalls
    /\ calls' = calls + 1
    /\ LET got == GetObjectOn(objectCache, packListCache, Store, oid) IN
       /\ out' = [op |-> "get_object", arg |-> oid,
                  result |-> [data |-> got.data, reads |-> got.reads]]
       /\ objectCache' = got.object_cache
       /\ packListCache' = got.pack_list_cache
    /\ UNCHANGED <<refs, packedRefs, loose, packs, idxs, meta, pc, body,
                   updates, packData, cur, resp, existing, packPut, before,
                   lastPut, pushes, overlap, cacheVars, advVars, callVars>>

\* R2GitStore::put_object: the loose blob is written and, when the blob
\* store accepted it, the bytes are cached
StorePut(oid) ==
    /\ calls < MaxCalls
    /\ calls' = calls + 1
    /\ \E ok \in BOOLEAN :
        /\ loose' = IF ok THEN loose \cup {oid} ELSE loose
        /\ objectCache' = IF ok
                          THEN [objectCache EXCEPT ![oid] = Some(Object(oid))]
                          ELSE objectCache
        /\ out' = [op |-> "put_object", arg |-> oid,
                   result |-> [data |-> IF ok THEN Some(Object(oid)) ELSE None,
                               reads |-> {}]]
    /\ UNCHANGED <<refs, packedRefs, packs, idxs, meta, pc, body,
                   updates, packData, cur, resp, existing, packPut, before,
                   lastPut, pushes, overlap, cacheVars, advVars,
                   packListCache, callVars>>

\* =================================================================
\* Deltas (objects.rs apply_delta, read_varint)
\* =================================================================

\* bit k of a byte
Bit(byte, k) == (byte \div (2 ^ k)) % 2

\* data[from..], positions counted from 0
From(data, from) == SubSeq(data, from + 1, Len(data))

\* read_varint, the loop: 7 bits a byte, least significant first, until a
\* byte without the continuation bit; none when the data ends first
RECURSIVE VarintLoop(_, _, _, _)
VarintLoop(data, pos, value, shift) ==
    IF pos >= Len(data) THEN None
    ELSE LET byte == data[pos + 1]
             v == value + (byte % 128) * (2 ^ shift)
         IN IF Bit(byte, 7) = 0 THEN Some([value |-> v, read |-> pos + 1])
            ELSE VarintLoop(data, pos + 1, v, shift + 7)

\* read_varint
ReadVarint(data) == IF data = <<>> THEN None ELSE VarintLoop(data, 0, 0, 0)

\* delta.get(pos).copied().unwrap_or(0)
GetOr0(delta, pos) == IF pos < Len(delta) THEN delta[pos + 1] ELSE 0

\* apply_delta, a COPY instruction: the operand bytes the command byte
\* announces, offset bytes first; pos is the position after the command
CopyOperands(delta, cmd, pos) ==
    LET p1 == pos + Bit(cmd, 0)
        p2 == p1 + Bit(cmd, 1)
        p3 == p2 + Bit(cmd, 2)
        p4 == p3 + Bit(cmd, 3)
        p5 == p4 + Bit(cmd, 4)
        p6 == p5 + Bit(cmd, 5)
        p7 == p6 + Bit(cmd, 6)
        copy_offset == Bit(cmd, 0) * GetOr0(delta, pos)
                       + Bit(cmd, 1) * GetOr0(delta, p1) * 256
                       + Bit(cmd, 2) * GetOr0(delta, p2) * 65536
                       + Bit(cmd, 3) * GetOr0(delta, p3) * 16777216
        copy_size == Bit(cmd, 4) * GetOr0(delta, p4)
                     + Bit(cmd, 5) * GetOr0(delta, p5) * 256
                     + Bit(cmd, 6) * GetOr0(delta, p6) * 65536
    IN [copy_offset |-> copy_offset,
        copy_size |-> IF copy_size = 0 THEN 65536 ELSE copy_size,
        pos |-> p7]

\* apply_delta, the loop over the instructions
RECURSIVE ApplyLoop(_, _, _, _)
ApplyLoop(base, delta, pos, result) ==
    IF pos >= Len(delta) THEN Some(result)
    ELSE LET cmd == delta[pos + 1] IN
         IF Bit(cmd, 7) = 1
         THEN LET c == CopyOperands(delta, cmd, pos + 1) IN
              IF c.copy_offset + c.copy_size > Len(base) THEN None
              ELSE ApplyLoop(base, delta, c.pos,
                             result \o SubSeq(base, c.copy_offset + 1,
                                              c.copy_offset + c.copy_size))
         ELSE IF cmd # 0
         THEN IF pos + 1 + cmd > Len(delta) THEN None
              ELSE ApplyLoop(base, delta, pos + 1 + cmd,
                             result \o SubSeq(delta, pos + 2, pos + 1 + cmd))
         ELSE None

\* an apply_delta without the test of the length produced
ApplyDeltaNoLength(base, delta) ==
    LET src == ReadVarint(delta) IN
    IF ~IsSome(src) THEN None
    ELSE LET dst == ReadVarint(From(delta, Val(src).read)) IN
         IF ~IsSome(dst) THEN None
         ELSE ApplyLoop(base, delta, Val(src).read + Val(dst).read, <<>>)

\* apply_delta: the source size (not used), the target size, the
\* instructions, and the test of the length produced
ApplyDelta(base, delta) ==
    LET src == ReadVarint(delta) IN
    IF ~IsSome(src) THEN None
    ELSE LET dst == ReadVarint(From(delta, Val(src).read)) IN
         IF ~IsSome(dst) THEN None
         ELSE LET result == ApplyLoop(base, delta,
                                      Val(src).read + Val(dst).read, <<>>)
              IN IF IsSome(result) /\ Len(Val(result)) = Val(dst).value
                 THEN result ELSE None

\* a caller applies a delta to a base
ApplyCall ==
    /\ inp.op = "apply_delta"
    /\ out.op = "none"
    /\ out' = [op |-> "apply_delta", arg |-> inp,
               result |-> ApplyDelta(inp.base, inp.delta)]
    /\ UNCHANGED <<refs, packedRefs, loose, packs, idxs, meta, pc, body,
                   updates, packData, cur, resp, existing, packPut, before,
                   lastPut, pushes, overlap, cacheVars, advVars, storeVars,
                   callVars>>

\* =================================================================
\* Packs with deltas (objects.rs)
\* =================================================================

\* A pack as the sequence of its entries; the offset of an entry is its
\* position, offset 0 is the pack header.  Entry types: 1..4 commit, tree,
\* blob, tag; 6 OFS_DELTA; 7 REF_DELTA.  zlib is taken to succeed.
Entry(oid, type, content, ofs, base, delta) ==
    [oid |-> oid, type |-> type, content |-> content, ofs |-> ofs,
     base |-> base, delta |-> delta]

Plain(oid, content) == Entry(oid, 1, content, <<>>, Zero, <<>>)

OfsDelta(oid, ofs, delta) == Entry(oid, 6, <<>>, ofs, Zero, delta)

RefDelta(oid, base, delta) == Entry(oid, 7, <<>>, <<>>, base, delta)

\* a decompressed object: "<type> <len>\0<content>"
Obj(type, content) == [type |-> type, content |-> content]

TypeNames == <<"commit", "tree", "blob", "tag">>

\* results: an object, none, or no return at all (the recursion never ends
\* and the stack is exhausted, or the thread panics)
SomeR(obj) == [st |-> "some", obj |-> obj]

NoneR == [st |-> "none", obj |-> Obj("", <<>>)]

Overflow == [st |-> "overflow", obj |-> Obj("", <<>>)]

Panic == [st |-> "panic", obj |-> Obj("", <<>>)]

\* the OIDs of a set in ascending order
RECURSIVE SortOids(_)
SortOids(S) ==
    IF S = {} THEN <<>>
    ELSE LET m == CHOOSE x \in S : \A y \in S : x <= y
         IN <<m>> \o SortOids(S \ {m})

FanoutBytes == 0..((MaxHops + 4) \div 2)

\* the index of a pack as find_object_in_index reads it: fanout, the SHA
\* table in ascending order, the offsets in the order of the SHA table
PackIndex(entries) ==
    LET shas == SortOids({entries[i].oid : i \in 1..Len(entries)})
    IN [magic |-> TRUE, version |-> 2,
        fanout |-> [b \in FanoutBytes |->
                      Cardinality({i \in 1..Len(shas) :
                                     FirstByte(shas[i]) <= b})],
        shas |-> shas,
        offsets |-> [i \in 1..Len(shas) |->
                       CHOOSE o \in 1..Len(entries) :
                           entries[o].oid = shas[i]]]

\* read_ofs_delta_offset, the loop
RECURSIVE OfsLoop(_, _, _)
OfsLoop(data, pos, offset) ==
    IF Bit(data[pos], 7) = 0 THEN Some([offset |-> offset, read |-> pos])
    ELSE IF pos >= Len(data) THEN None
    ELSE OfsLoop(data, pos + 1,
                 (offset + 1) * 128 + (data[pos + 1] % 128))

\* read_ofs_delta_offset
ReadOfsDeltaOffset(data) ==
    IF data = <<>> THEN None ELSE OfsLoop(data, 1, data[1] % 128)

\* read_pack_object: offset as u64 - base_offset in a build without
\* overflow checks; with base_offset above offset the difference wraps to
\* an offset past the end of the pack
BaseAbsOffset(entries, offset, base_offset) ==
    IF base_offset > offset THEN Len(entries) + 1 ELSE offset - base_offset

\* read_pack_object, the end of its OFS_DELTA and REF_DELTA branches: no
\* base, no object; else the delta of the entry is applied to the base
DeltaOnBase(base_result, delta) ==
    IF base_result.st # "some" THEN base_result
    ELSE IF ~IsSome(ApplyDelta(base_result.obj.content, delta)) THEN NoneR
    ELSE SomeR(Obj(base_result.obj.type,
                   Val(ApplyDelta(base_result.obj.content, delta))))

\* read_pack_object; `stack` holds the offsets of the calls in progress: a
\* call for one of them repeats without end. `checks` tells whether the
\* build checks integer overflow (the subtraction then panics).
RECURSIVE ReadPackObject(_, _, _, _, _)
ReadPackObject(entries, idx, offset, stack, checks) ==
    IF offset \notin 1..Len(entries) THEN NoneR
    ELSE IF offset \in stack THEN Overflow
    ELSE IF entries[offset].type \in 1..4
    THEN SomeR(Obj(entries[offset].type, entries[offset].content))
    ELSE IF entries[offset].type = 6
    THEN IF ~IsSome(ReadOfsDeltaOffset(entries[offset].ofs)) THEN NoneR
         ELSE IF checks
                 /\ Val(ReadOfsDeltaOffset(entries[offset].ofs)).offset
                       > offset
         THEN Panic
         ELSE DeltaOnBase(
                  ReadPackObject(entries, idx,
                      BaseAbsOffset(entries, offset,
                          Val(ReadOfsDeltaOffset(entries[offset].ofs)).offset),
                      stack \cup {offset}, checks),
                  entries[offset].delta)
    ELSE IF entries[offset].type = 7
    THEN IF ~IsSome(FindObjectInIndex(idx, entries[offset].base)) THEN NoneR
         ELSE DeltaOnBase(
                  ReadPackObject(entries, idx,
                      Val(FindObjectInIndex(idx, entries[offset].base)),
                      stack \cup {offset}, checks),
                  entries[offset].delta)
    ELSE NoneR

\* extract_object_with_deltas, the object with its type by name
NamedObject(result) ==
    IF result.st # "some" THEN result
    ELSE IF result.obj.type \notin 1..4 THEN NoneR
    ELSE SomeR(Obj(TypeNames[result.obj.type], result.obj.content))

\* extract_object_with_deltas
ExtractObjectWithDeltas(entries, idx, offset, checks) ==
    NamedObject(ReadPackObject(entries, idx, offset, {}, checks))

\* read_pack_object_header: the type of the entry at an offset
ReadPackObjectHeader(entries, offset) ==
    IF offset \in 1..Len(entries) THEN Some(entries[offset].type) ELSE None

\* the loose object of an OID, if any
LooseObject(ds, oid) ==
    IF \E o \in ds.loose : o.oid = oid
    THEN Some(Obj((CHOOSE o \in ds.loose : o.oid = oid).type,
                  (CHOOSE o \in ds.loose : o.oid = oid).content))
    ELSE None

\* A get_object call: where it is (pc), the index get_from_pack is at (i),
\* the delta of the REF_DELTA asked for, resolve_object_iterative's
\* current_oid, delta_chain and depth, and the base it has found.
NoWalk ==
    [pc |-> "idle", i |-> 0, delta |-> <<>>, current_oid |-> 0,
     delta_chain |-> <<>>, depth |-> 0, type |-> "", content |-> <<>>]

\* apply_delta_chain, one turn of its loop: the delta collected last is
\* applied; a delta that cannot be applied is passed over
ApplyDeltaChainStep(w) ==
    LET last == w.delta_chain[Len(w.delta_chain)]
        new_content == ApplyDelta(w.content, last)
    IN [w EXCEPT !.content = IF IsSome(new_content)
                             THEN Val(new_content) ELSE @,
                 !.delta_chain = SubSeq(@, 1, Len(@) - 1)]

\* resolve_object_iterative, a base read from a pack: the loop over the
\* indices goes on when there is no object
BaseFound(obj) ==
    IF obj.st = "none" THEN [kind |-> "none"]
    ELSE [kind |-> "base", result |-> obj]

\* resolve_object_iterative, one index for the OID at hand: a REF_DELTA to
\* follow, a base, or nothing
ScanPack(pack, current_oid, checks) ==
    LET offset == FindObjectInIndex(pack.idx, current_oid)
        header == IF IsSome(offset)
                  THEN ReadPackObjectHeader(pack.entries, Val(offset))
                  ELSE None
    IN IF ~IsSome(offset) \/ ~pack.stored \/ ~IsSome(header)
       THEN [kind |-> "none"]
       ELSE IF Val(header) = 7
       THEN [kind |-> "delta",
             base_oid |-> pack.entries[Val(offset)].base,
             delta |-> pack.entries[Val(offset)].delta]
       ELSE IF Val(header) \in 1..4 \/ Val(header) = 6
       THEN BaseFound(ExtractObjectWithDeltas(pack.entries, pack.idx,
                                              Val(offset), checks))
       ELSE [kind |-> "none"]

\* resolve_object_iterative, the loop over the indices
RECURSIVE ScanPacks(_, _, _)
ScanPacks(ds, current_oid, i) ==
    IF i > Len(ds.packs) THEN [kind |-> "none"]
    ELSE IF ScanPack(ds.packs[i], current_oid, ds.checks).kind = "none"
    THEN ScanPacks(ds, current_oid, i + 1)
    ELSE ScanPack(ds.packs[i], current_oid, ds.checks)

\* get_from_pack goes on with the next index: resolve_object_iterative has
\* returned none, and so has resolve_ref_delta
NextIndex(w) == [w EXCEPT !.pc = "get_from_pack", !.i = @ + 1]

\* resolve_object_iterative, an iteration after its loop over the indices:
\* a REF_DELTA is pushed and its base is next, a base was read from a pack
\* (or the read never returns), the object is loose, or there is none
Found(ds, w, found) ==
    IF found.kind = "delta"
    THEN [w EXCEPT !.current_oid = found.base_oid,
                   !.delta_chain = Append(@, found.delta),
                   !.depth = @ + 1]
    ELSE IF found.kind = "base"
    THEN IF found.result.st # "some"
         THEN [w EXCEPT !.pc = found.result.st]
         ELSE [w EXCEPT !.pc = "apply",
                        !.type = found.result.obj.type,
                        !.content = found.result.obj.content]
    ELSE IF IsSome(LooseObject(ds, w.current_oid))
    THEN [w EXCEPT !.pc = "apply",
                   !.type = Val(LooseObject(ds, w.current_oid)).type,
                   !.content = Val(LooseObject(ds, w.current_oid)).content]
    ELSE NextIndex(w)

\* a loop that gives up one iteration early
ResolveIterationShort(ds, w) ==
    IF w.depth >= MaxHops - 1 THEN NextIndex(w)
    ELSE Found(ds, w, ScanPacks(ds, w.current_oid, 1))

\* resolve_object_iterative, one iteration of `for depth in 0..100`
ResolveIteration(ds, w) ==
    IF w.depth >= MaxHops THEN NextIndex(w)
    ELSE Found(ds, w, ScanPacks(ds, w.current_oid, 1))

\* the call has returned, or will never return
Return(result) ==
    /\ out' = [op |-> "get_object", arg |-> inp.oid, result |-> result]
    /\ walk' = [walk EXCEPT !.pc = "done"]

\* get_object on a fresh store whose packs hold deltas: the loose blob,
\* else the packs
GetCall ==
    /\ inp.op = "get_object"
    /\ walk.pc = "idle"
    /\ out.op = "none"
    /\ IF IsSome(LooseObject(inp.ds, inp.oid))
       THEN Return(SomeR(Val(LooseObject(inp.ds, inp.oid))))
       ELSE /\ walk' = [walk EXCEPT !.pc = "get_from_pack", !.i = 1]
            /\ out' = out
    /\ UNCHANGED <<refs, packedRefs, loose, packs, idxs, meta, pc, body,
                   updates, packData, cur, resp, existing, packPut, before,
                   lastPut, pushes, overlap, cacheVars, advVars, storeVars,
                   inp, sessionCache,
                   basicAuthCache>>

\* get_from_pack, one index: past the last one the object is missing; a
\* REF_DELTA goes to resolve_ref_delta, anything else is extracted
GetFromPackStep ==
    /\ walk.pc = "get_from_pack"
    /\ IF walk.i > Len(inp.ds.packs) THEN Return(NoneR)
       ELSE LET pack == inp.ds.packs[walk.i]
                offset == FindObjectInIndex(pack.idx, inp.oid)
                header == IF IsSome(offset)
                          THEN ReadPackObjectHeader(pack.entries, Val(offset))
                          ELSE None
                obj == ExtractObjectWithDeltas(pack.entries, pack.idx,
                                               Val(offset), inp.ds.checks)
            IN IF ~IsSome(offset) \/ ~pack.stored
               THEN walk' = NextIndex(walk) /\ out' = out
               ELSE IF IsSome(header) /\ Val(header) = 7
               THEN /\ walk' = [walk EXCEPT
                                  !.pc = "resolve",
                                  !.delta = pack.entries[Val(offset)].delta,
                                  !.current_oid =
                                      pack.entries[Val(offset)].base,
                                  !.delta_chain = <<>>,
                                  !.depth = 0]
                    /\ out' = out
               ELSE IF obj.st = "none"
               THEN walk' = NextIndex(walk) /\ out' = out
               ELSE Return(obj)
    /\ UNCHANGED <<refs, packedRefs, loose, packs, idxs, meta, pc, body,
                   updates, packData, cur, resp, existing, packPut, before,
                   lastPut, pushes, overlap, cacheVars, advVars, storeVars,
                   inp, sessionCache,
                   basicAuthCache>>

\* resolve_object_iterative, an iteration of its loop
ResolveStep ==
    /\ walk.pc = "resolve"
    /\ walk' = ResolveIteration(inp.ds, walk)
    /\ out' = IF walk'.pc \in {"overflow", "panic"}
              THEN [op |-> "get_object", arg |-> inp.oid,
                    result |-> [NoneR EXCEPT !.st = walk'.pc]]
              ELSE out
    /\ UNCHANGED <<refs, packedRefs, loose, packs, idxs, meta, pc, body,
                   updates, packData, cur, resp, existing, packPut, before,
                   lastPut, pushes, overlap, cacheVars, advVars, storeVars,
                   inp, sessionCache,
                   basicAuthCache>>

\* apply_delta_chain, a turn of its loop; once the chain is applied,
\* resolve_ref_delta applies the delta of the object asked for and names
\* the type
ApplyStep ==
    /\ walk.pc = "apply"
    /\ IF walk.delta_chain # <<>>
       THEN walk' = ApplyDeltaChainStep(walk) /\ out' = out
       ELSE LET result == ApplyDelta(walk.content, walk.delta) IN
            IF ~IsSome(result) \/ (\A t \in 1..4 : TypeNames[t] # walk.type)
            THEN walk' = NextIndex(walk) /\ out' = out
            ELSE Return(SomeR(Obj(walk.type, Val(result))))
    /\ UNCHANGED <<refs, packedRefs, loose, packs, idxs, meta, pc, body,
                   updates, packData, cur, resp, existing, packPut, before,
                   lastPut, pushes, overlap, cacheVars, advVars, storeVars,
                   inp, sessionCache,
                   basicAuthCache>>

\* =================================================================
\* Specifications of the push path
\* =================================================================

\* A proper index of a pack: fanout, sorted SHA table, offsets
FullIndex(pack) ==
    [magic |-> TRUE, version |-> 2,
     fanout |-> [b \in Bytes |->
                   Cardinality({i \in 1..Len(pack.objs) :
                                  FirstByte(pack.objs[i]) <= b})],
     shas |-> pack.objs,
     offsets |-> [i \in 1..Len(pack.objs) |-> i]]

NoQuery == [op |-> "none", arg |-> <<>>, result |-> <<>>]

\* No request has arrived and the metadata table is empty.
InitCalls ==
    /\ meta = [b \in Branches |-> NoRow]
    /\ pc = [r \in Reqs |-> "idle"]
    /\ body = [r \in Reqs |-> NoBody]
    /\ updates = [r \in Reqs |-> <<>>]
    /\ packData = [r \in Reqs |-> ShortPack]
    /\ cur = [r \in Reqs |-> 1]
    /\ resp = [r \in Reqs |-> <<>>]
    /\ existing = [r \in Reqs |-> NoRow]
    /\ packPut = [r \in Reqs |-> "none"]
    /\ before = [r \in Reqs |-> refs]
    /\ lastPut = [k \in RefKeys |-> NoPut]
    /\ pushes = 0
    /\ out = NoQuery
    /\ cache = NoCache
    /\ rowTree = [b \in Branches |-> EmptyTree]
    /\ reader = Idle
    /\ clock = 0
    /\ age = 0
    /\ infoRefs = [k \in CacheKeys |-> None]
    /\ otherEntries = 0
    /\ adv = NoAdv
    /\ objectCache = NoObjects
    /\ packListCache = None
    /\ calls = 0
    /\ walk = NoWalk
    /\ sessionCache = [t \in Tokens |-> None]
    /\ basicAuthCache = [k \in BasicKeys |-> None]

\* the same, with the advertisement cache at its time to live of Ttl ticks
InitRequests == InitCalls /\ ttl = Ttl

\* The repository before the pushes: initialized (HEAD names main), with the
\* commits 1..k already stored, either loose or in one indexed pack.
InitRepo ==
    /\ refs = [k \in RefKeys |->
                IF k = HeadKey THEN SymBlob(MainKey, TRUE) ELSE Absent]
    /\ packedRefs = None
    /\ \E k \in 0..MaxOid :
        LET base == Pack([i \in 1..(k - 1) |-> i + 1]) IN
        /\ loose = {1} \cap (1..k)
        /\ packs = IF k > 1 THEN {base} ELSE {}
        /\ idxs = IF k > 1
                  THEN [p \in {base} |-> FullIndex(base)]
                  ELSE [p \in {} |-> FullIndex(base)]
    /\ InitRequests

\* requests one after the other
Init ==
    InitRepo /\ overlap = FALSE /\ redisOn = FALSE /\ inp = NoQuery

\* a second request may arrive while the first is in flight
InitOverlap ==
    InitRepo /\ overlap = TRUE /\ redisOn = FALSE /\ inp = NoQuery

\* pushes of one client and reads of another, with the shared cache
InitCache ==
    InitRepo /\ overlap = TRUE /\ redisOn = TRUE /\ inp = NoQuery

Next ==
    \E r \in Reqs :
        \/ Begin(r)
        \/ PutPack(r)
        \/ PutIdx(r)
        \/ RefStep(r)
        \/ MetaSkip(r)
        \/ MetaDelete(r)
        \/ MetaRead(r)
        \/ MetaWrite(r)

Spec == Init /\ [][Next]_vars

SpecOverlap == InitOverlap /\ [][Next]_vars

NextCache ==
    \/ Begin("r1")
    \/ PutPack("r1")
    \/ PutIdx("r1")
    \/ RefStep("r1")
    \/ MetaSkip("r1")
    \/ MetaDelete("r1")
    \/ MetaRead("r1")
    \/ MetaWrite("r1")
    \/ Invalidate("r1")
    \/ \E kind \in Kinds, b \in Branches : ReadBegin(kind, b)
    \/ ReadResolve
    \/ ReadLoad
    \/ \E kind \in Kinds, b \in Branches : Expire(b, kind)

SpecCache == InitCache /\ [][NextCache]_vars

\* The repository before a push: the branch main absent or at commit 1, the
\* commits stored.
InitAdv ==
    /\ \E h \in {Zero, 1} :
          refs = [k \in RefKeys |->
                    IF k = HeadKey THEN SymBlob(MainKey, TRUE)
                    ELSE IF k = MainKey /\ h # Zero THEN OidBlob(h, TRUE)
                    ELSE Absent]
    /\ packedRefs = None
    /\ loose = {1}
    /\ packs = {Pack([i \in 1..(MaxOid - 1) |-> i + 1])}
    /\ idxs = [p \in packs |-> FullIndex(p)]
    /\ InitRequests
    /\ overlap = TRUE
    /\ redisOn = FALSE
    /\ inp = NoQuery

\* the one push of the behaviour arrives
BeginOnce == pushes = 0 /\ Begin("r1")

\* one push, info/refs requests and the clock
NextAdv ==
    \/ BeginOnce
    \/ PutPack("r1")
    \/ PutIdx("r1")
    \/ RefStep("r1")
    \/ MetaSkip("r1")
    \/ MetaDelete("r1")
    \/ MetaRead("r1")
    \/ MetaWrite("r1")
    \/ \E service \in Services : AdvBegin(RepoPrefix, service)
    \/ AdvList
    \/ AdvInsert
    \/ Tick

SpecAdv == InitAdv /\ [][NextAdv]_vars

\* The same repository, with the cache switched off (a time to live of 0)
\* or on.
InitInfoRefs ==
    /\ \E h \in {Zero, 1} :
          refs = [k \in RefKeys |->
                    IF k = HeadKey THEN SymBlob(MainKey, TRUE)
                    ELSE IF k = MainKey /\ h # Zero THEN OidBlob(h, TRUE)
                    ELSE Absent]
    /\ packedRefs = None
    /\ loose = {1}
    /\ packs = {Pack([i \in 1..(MaxOid - 1) |-> i + 1])}
    /\ idxs = [p \in packs |-> FullIndex(p)]
    /\ InitCalls
    /\ ttl \in {0, Ttl}
    /\ overlap = TRUE
    /\ redisOn = FALSE
    /\ inp = NoQuery

\* info/refs requests for two repositories and the clock
NextInfoRefs ==
    \/ \E prefix \in Prefixes, service \in Services : AdvBegin(prefix, service)
    \/ AdvList
    \/ AdvInsert
    \/ Tick

SpecInfoRefs == InitInfoRefs /\ [][NextInfoRefs]_vars

\* one push, which may be cancelled at any of its awaits
NextCancel ==
    \/ BeginOnce
    \/ PutPack("r1")
    \/ PutIdx("r1")
    \/ RefStep("r1")
    \/ MetaSkip("r1")
    \/ MetaDelete("r1")
    \/ MetaRead("r1")
    \/ MetaWrite("r1")
    \/ Cancel("r1")

SpecCancel == Init /\ [][NextCancel]_vars

\* Sessions and basic-auth users are cached and read while time passes.
InitAuth ==
    /\ refs = [k \in RefKeys |-> Absent]
    /\ packedRefs = None
    /\ loose = {}
    /\ packs = {}
    /\ idxs = [p \in {} |-> ZeroFanout]
    /\ InitRequests
    /\ overlap = FALSE
    /\ redisOn = FALSE
    /\ inp = NoQuery

NextAuth ==
    \/ \E token \in Tokens, user \in Users, expires_at \in 1..(MaxTime + 1) :
          SessionSet(token, user, expires_at)
    \/ \E token \in Tokens : SessionGet(token)
    \/ \E token \in Tokens : SessionInvalidate(token)
    \/ Sweep
    \/ \E key \in BasicKeys, user \in Users : BasicSet(key, user)
    \/ \E key \in BasicKeys : BasicGet(key)
    \/ Tick

SpecAuth == InitAuth /\ [][NextAuth]_vars

\* The requests of many repositories: those of the upload-pack
\* advertisement of one repository, and those of repositories that are not
\* in the cache yet.
InitFlush ==
    /\ refs = [k \in RefKeys |->
                 IF k = HeadKey THEN SymBlob(MainKey, TRUE)
                 ELSE IF k = MainKey THEN OidBlob(1, TRUE)
                 ELSE Absent]
    /\ packedRefs = None
    /\ loose = {1}
    /\ packs = {}
    /\ idxs = [p \in {} |-> ZeroFanout]
    /\ InitRequests
    /\ overlap = FALSE
    /\ redisOn = FALSE
    /\ inp = NoQuery

NextFlush ==
    \/ AdvBegin(RepoPrefix, "git-upload-pack")
    \/ AdvList
    \/ AdvInsert
    \/ OtherInsert
    \/ Tick

SpecFlush == InitFlush /\ [][NextFlush]_vars

\* One push of a client that may have a branch named refs/heads/PACKAGE.
InitReport ==
    InitRepo /\ overlap = FALSE /\ redisOn = FALSE
        /\ inp = [op |-> "push", arg |-> <<>>, result |-> <<>>]

NextReport ==
    \/ BeginOnce
    \/ PutPack("r1")
    \/ PutIdx("r1")
    \/ RefStep("r1")
    \/ MetaSkip("r1")
    \/ MetaDelete("r1")
    \/ MetaRead("r1")
    \/ MetaWrite("r1")

SpecReport == InitReport /\ [][NextReport]_vars

\* The repository a store instance is made for: any of the commits loose,
\* commit 2 possibly in an indexed pack as well.
InitStore ==
    /\ refs = [k \in RefKeys |->
                IF k = HeadKey THEN SymBlob(MainKey, TRUE) ELSE Absent]
    /\ packedRefs = None
    /\ loose \in SUBSET OIDs
    /\ packs \in {{}, {Pack(<<MaxOid>>)}}
    /\ idxs = [p \in packs |-> FullIndex(p)]
    /\ InitRequests
    /\ overlap = TRUE
    /\ redisOn = FALSE
    /\ inp = NoQuery

\* calls on one store instance: get_object, put_object and receive-pack
NextStore ==
    \/ \E oid \in OIDs : StoreGet(oid)
    \/ \E oid \in OIDs : StorePut(oid)
    \/ BeginOnce
    \/ PutPack("r1")
    \/ PutIdx("r1")
    \/ RefStep("r1")
    \/ MetaSkip("r1")
    \/ MetaDelete("r1")
    \/ MetaRead("r1")
    \/ MetaWrite("r1")

SpecStore == InitStore /\ [][NextStore]_vars

\* the bases and the deltas apply_delta is called with: a base of up to two
\* bytes; a delta of two sizes and up to MaxBody instruction bytes, or one
\* that ends within its sizes
BaseChoices == {<<>>, <<7>>, <<7, 8>>}

BodyBytes == {0, 1, 2, 128, 144, 145}

DeltaChoices ==
    {<<>>, <<0>>, <<128>>, <<0, 128>>}
        \cup {src \o dst \o b :
                 src \in {<<0>>, <<2>>},
                 dst \in {<<0>>, <<1>>, <<2>>, <<3>>},
                 b \in SeqsUpTo(BodyBytes, MaxBody)}

InitDelta ==
    /\ refs = [k \in RefKeys |-> Absent]
    /\ packedRefs = None
    /\ loose = {}
    /\ packs = {}
    /\ idxs = [p \in {} |-> ZeroFanout]
    /\ InitRequests
    /\ overlap = FALSE
    /\ redisOn = FALSE
    /\ \E base \in BaseChoices, delta \in DeltaChoices :
          inp = [op |-> "apply_delta", base |-> base, delta |-> delta]

NextDelta == ApplyCall

SpecDelta == InitDelta /\ [][NextDelta]_vars

\* the content of a plain object, a delta that drops the first byte of a
\* three-byte base and appends d, and two deltas that cannot be applied: one
\* with a zero instruction, one whose COPY runs past the base
BaseContent == <<1, 2, 3>>

ShiftDelta(d) == <<3, 3, 145, 1, 2, 1, d>>

MalformedDelta == <<3, 3, 0>>

InconsistentDelta == <<3, 3, 144, 9>>

DeltaPack(entries) ==
    [entries |-> entries, idx |-> PackIndex(entries), stored |-> TRUE]

\* A chain of n REF_DELTA objects 1..n, object i on base i + 1, spread over
\* `split` packs (odd OIDs in the first), ending in a plain object in a
\* pack, a loose object, an OFS_DELTA on a plain object, no object at all,
\* or a reference back to object 1; delta `bad` cannot be applied. No
\* offset of a chain lies before its pack, so one build stands for both.
ChainEntries(n, end, bad, bad_delta) ==
    [i \in 1..n |->
        RefDelta(i, IF i = n /\ end = "cycle" THEN 1 ELSE i + 1,
                 IF i = bad THEN bad_delta ELSE ShiftDelta(10 + i))]
    \o (IF end = "packed" THEN <<Plain(n + 1, BaseContent)>>
        ELSE IF end = "ofs"
        THEN <<Plain(n + 2, BaseContent), OfsDelta(n + 1, <<1>>, ShiftDelta(9))>>
        ELSE <<>>)

PackNo(oid, n, end, split) ==
    IF split = 1 THEN 1
    ELSE IF end = "ofs" /\ oid = n + 2 THEN 2 - ((n + 1) % 2)
    ELSE 2 - (oid % 2)

DeltaChainStore(n, end, bad, bad_delta, split) ==
    [packs |-> [p \in 1..split |->
                  DeltaPack(SelectSeq(ChainEntries(n, end, bad, bad_delta),
                                      LAMBDA e : PackNo(e.oid, n, end, split)
                                                    = p))],
     loose |-> IF end = "loose"
               THEN {[oid |-> n + 1, type |-> "commit",
                      content |-> BaseContent]}
               ELSE {},
     checks |-> FALSE]

ChainLens == {1, 2, 3, MaxHops - 1, MaxHops, MaxHops + 1}

ChainEnds == {"packed", "loose", "ofs", "missing", "cycle"}

ChainInputs ==
    UNION {{[op |-> "get_object", shape |-> "chain", n |-> n, end |-> end,
             bad |-> bd[1], split |-> split, oid |-> 1,
             ds |-> DeltaChainStore(n, end, bd[1], bd[2], split)] :
               bd \in {<<0, MalformedDelta>>}
                        \cup (({1, 2, n} \cap (1..n))
                                 \X {MalformedDelta, InconsistentDelta}),
               end \in ChainEnds, split \in {1, 2}} : n \in ChainLens}

\* one pack whose entries make the named shape, and the object asked for,
\* in a build with or without overflow checks
ShapeEntries ==
    [ofs_zero |-> <<Plain(1, BaseContent), OfsDelta(2, <<0>>, ShiftDelta(9))>>,
     ofs_header |-> <<OfsDelta(1, <<1>>, ShiftDelta(9))>>,
     ofs_before_start |-> <<OfsDelta(1, <<2>>, ShiftDelta(9))>>,
     ofs_far |-> <<OfsDelta(1, <<129, 0>>, ShiftDelta(9))>>,
     ofs_ref_cycle |-> <<RefDelta(1, 2, ShiftDelta(9)),
                         OfsDelta(2, <<1>>, ShiftDelta(9))>>,
     ref_cycle_under_ofs |-> <<RefDelta(1, 2, ShiftDelta(9)),
                               RefDelta(2, 1, ShiftDelta(9)),
                               OfsDelta(3, <<1>>, ShiftDelta(9))>>,
     ref_cycle |-> <<RefDelta(1, 2, ShiftDelta(9)),
                     RefDelta(2, 1, ShiftDelta(9))>>,
     ref_self |-> <<RefDelta(1, 1, ShiftDelta(9))>>,
     ref_missing |-> <<RefDelta(1, 9, ShiftDelta(9))>>,
     ofs_chain |-> <<Plain(1, BaseContent), OfsDelta(2, <<1>>, ShiftDelta(9)),
                     OfsDelta(3, <<1>>, ShiftDelta(8))>>,
     ofs_two_back |-> <<Plain(1, BaseContent),
                        OfsDelta(2, <<1>>, ShiftDelta(9)),
                        OfsDelta(3, <<2>>, ShiftDelta(8))>>,
     ref_in_pack |-> <<Plain(1, BaseContent), RefDelta(2, 1, ShiftDelta(9)),
                       OfsDelta(3, <<1>>, ShiftDelta(8))>>]

ShapeInputs ==
    {[op |-> "get_object", shape |-> sh, n |-> 0, end |-> "", bad |-> 0,
      split |-> 1, oid |-> oid,
      ds |-> [packs |-> <<DeltaPack(ShapeEntries[sh])>>, loose |-> {},
              checks |-> checks]] :
        sh \in DOMAIN ShapeEntries, oid \in 1..3, checks \in BOOLEAN}

\* the ways a pack that holds OID 1 can be unreadable: an index with a wrong
\* magic or version, no pack blob, or an entry that cannot be decoded (a
\* type that is none, an OFS_DELTA whose offset is cut short, is 0, or
\* reaches before the pack)
Damages ==
    {"magic", "version", "no_pack", "type", "ofs_cut", "ofs_zero",
     "ofs_before"}

DamagedPack(damage) ==
    LET pack == DeltaPack(<<Plain(1, BaseContent)>>) IN
    IF damage = "magic" THEN [pack EXCEPT !.idx.magic = FALSE]
    ELSE IF damage = "version" THEN [pack EXCEPT !.idx.version = 3]
    ELSE IF damage = "no_pack" THEN [pack EXCEPT !.stored = FALSE]
    ELSE IF damage = "type"
    THEN DeltaPack(<<Entry(1, 5, BaseContent, <<>>, Zero, <<>>)>>)
    ELSE IF damage = "ofs_cut"
    THEN DeltaPack(<<OfsDelta(1, <<128>>, ShiftDelta(9))>>)
    ELSE IF damage = "ofs_zero"
    THEN DeltaPack(<<OfsDelta(1, <<0>>, ShiftDelta(9))>>)
    ELSE DeltaPack(<<OfsDelta(1, <<5>>, ShiftDelta(9))>>)

\* OID 1 in two packs, one of them unreadable and listed at position n
DupInputs ==
    {[op |-> "get_object", shape |-> "dup", n |-> pos, end |-> damage,
      bad |-> 0, split |-> 2, oid |-> 1,
      ds |-> [packs |-> IF pos = 1
                        THEN <<DamagedPack(damage),
                               DeltaPack(<<Plain(1, BaseContent)>>)>>
                        ELSE <<DeltaPack(<<Plain(1, BaseContent)>>),
                               DamagedPack(damage)>>,
              loose |-> {}, checks |-> checks]] :
        pos \in 1..2, damage \in Damages, checks \in BOOLEAN}

InitPack ==
    /\ refs = [k \in RefKeys |-> Absent]
    /\ packedRefs = None
    /\ loose = {}
    /\ packs = {}
    /\ idxs = [p \in {} |-> ZeroFanout]
    /\ InitRequests
    /\ overlap = FALSE
    /\ redisOn = FALSE
    /\ inp \in ChainInputs \cup ShapeInputs \cup DupInputs

NextPack ==
    \/ GetCall
    \/ GetFromPackStep
    \/ ResolveStep
    \/ ApplyStep

SpecPack == InitPack /\ [][NextPack]_vars

\* =================================================================
\* upload-pack (pack.rs)
\* =================================================================
\* The objects of a repository: blob 1, tree 2 with the entry 1, commit 3
\* of tree 2, commit 4 of tree 2 with the parent 3, and tag 5 of commit 4.
Graph ==
    <<[type |-> "blob", tree |-> None, parents |-> <<>>, entries |-> <<>>],
      [type |-> "tree", tree |-> None, parents |-> <<>>, entries |-> <<1>>],
      [type |-> "commit", tree |-> Some(2), parents |-> <<>>,
       entries |-> <<>>],
      [type |-> "commit", tree |-> Some(2), parents |-> <<3>>,
       entries |-> <<>>],
      [type |-> "tag", tree |-> None, parents |-> <<>>, entries |-> <<>>]>>

\* The OIDs a client may name: those of the objects and one of no object.
GraphOids == 1..(Len(Graph) + 1)

\* store.get_object and parse_git_object: the object under an OID, when the
\* store holds it
StoredObject(stored, oid) ==
    IF oid \in stored THEN Some(Graph[oid]) ELSE None

\* a pkt-line of an upload-pack body, trimmed: `want ` or `have ` followed
\* by 40 characters or more (full) or by fewer, or another line (`done`)
UpLine(kind, oid, full) == [kind |-> kind, oid |-> oid, full |-> full]

\* handle_upload_pack: line[5..45] is out of range on a line of fewer than
\* 45 bytes
SlicePanics(line) == line.kind \in {"want", "have"} /\ ~line.full

\* handle_upload_pack: the OIDs of the lines of one kind, in body order
RECURSIVE OidsOf(_, _)
OidsOf(lines, kind) ==
    IF lines = <<>> THEN <<>>
    ELSE (IF Head(lines).kind = kind THEN <<Head(lines).oid>> ELSE <<>>)
            \o OidsOf(Tail(lines), kind)

\* collect_reachable_objects: what the object under a visited OID adds to
\* to_visit: of a commit its tree and its parents, of a tree its entries
Children(stored, oid) ==
    IF ~IsSome(StoredObject(stored, oid)) THEN <<>>
    ELSE IF Graph[oid].type = "commit"
    THEN Graph[oid].tree \o Graph[oid].parents
    ELSE IF Graph[oid].type = "tree" THEN Graph[oid].entries
    ELSE <<>>

\* the elements of a sequence that are not in a set
Unvisited(oids, visited) == SelectSeq(oids, LAMBDA o : o \notin visited)

\* collect_reachable_objects, one turn of the loop: to_visit after the pop
\* and the pushes
Visit(stored, to_visit, visited) ==
    SubSeq(to_visit, 1, Len(to_visit) - 1)
        \o (IF to_visit[Len(to_visit)] \in visited THEN <<>>
            ELSE Unvisited(Children(stored, to_visit[Len(to_visit)]),
                           visited \cup {to_visit[Len(to_visit)]}))

\* collect_reachable_objects: the visited set when to_visit is empty
RECURSIVE CollectLoop(_, _, _)
CollectLoop(stored, to_visit, visited) ==
    IF to_visit = <<>> THEN visited
    ELSE CollectLoop(stored, Visit(stored, to_visit, visited),
                     visited \cup {to_visit[Len(to_visit)]})

CollectReachableObjects(stored, oids) == CollectLoop(stored, oids, {})

\* a part of an upload-pack response: the flush `0000`, the pkt-line
\* `0008NAK\n`, or a packfile
Part(kind) == [kind |-> kind, version |-> 0, count |-> 0, objects |-> <<>>]

\* create_packfile: the signature, version 2, the object count and the
\* objects of the OIDs the store returns, in the order of the OIDs; none
\* when the store returns no object
CreatePackfile(stored, oids) ==
    IF Unvisited(oids, GraphOids \ stored) = <<>> THEN None
    ELSE Some([kind |-> "PACK", version |-> 2,
               count |-> Len(Unvisited(oids, GraphOids \ stored)),
               objects |-> Unvisited(oids, GraphOids \ stored)])

\* handle_upload_pack: all_oids without the have-set.  The order is that of
\* the iteration of the visited set, here ascending.
NeededOids(stored, wants, haves) ==
    SortOids(CollectReachableObjects(stored, wants)
                \ {haves[i] : i \in 1..Len(haves)})

\* handle_upload_pack after the parse: the response as its parts
Negotiate(stored, wants, needed) ==
    IF wants = <<>> THEN <<Part("0000")>>
    ELSE IF needed = <<>> THEN <<Part("0008NAK"), Part("0000")>>
    ELSE <<Part("0008NAK")>> \o CreatePackfile(stored, needed)

\* handle_upload_pack: the response, or the panic of the slice
HandleUploadPack(stored, lines) ==
    IF \E i \in 1..Len(lines) : SlicePanics(lines[i])
    THEN [st |-> "panic", response |-> <<>>]
    ELSE [st |-> "ok",
          response |-> Negotiate(stored, OidsOf(lines, "want"),
                                 NeededOids(stored, OidsOf(lines, "want"),
                                            OidsOf(lines, "have")))]

\* a fetch request is answered
UploadCall ==
    /\ inp.op = "upload_pack"
    /\ out.op = "none"
    /\ out' = [op |-> "upload_pack", arg |-> inp,
               result |-> HandleUploadPack(inp.stored, inp.lines)]
    /\ UNCHANGED <<refs, packedRefs, loose, packs, idxs, meta, pc, body,
                   updates, packData, cur, resp, existing, packPut, before,
                   lastPut, pushes, overlap, cacheVars, advVars, storeVars,
                   callVars>>

\* The lines of a fetch request.
UpLines ==
    {UpLine(k, o, f) : k \in {"want", "have"}, o \in GraphOids,
                       f \in BOOLEAN}
        \cup {UpLine("done", Zero, TRUE)}

\* A repository holding any of the objects and a body of up to MaxLines
\* lines.
InitUpload ==
    /\ refs = [k \in RefKeys |-> Absent]
    /\ packedRefs = None
    /\ loose = {}
    /\ packs = {}
    /\ idxs = [p \in {} |-> ZeroFanout]
    /\ InitRequests
    /\ overlap = FALSE
    /\ redisOn = FALSE
    /\ \E stored \in SUBSET (1..Len(Graph)), lines \in SeqsUpTo(UpLines, MaxLines) :
          inp = [op |-> "upload_pack", stored |-> stored, lines |-> lines]

NextUpload == UploadCall

SpecUpload == InitUpload /\ [][NextUpload]_vars

\* =================================================================
\* Specification of the ref-store queries
\* =================================================================

\* the prefixes list_refs is called with (refs/heads/, refs/tags/) and the
\* prefix of all refs
RefPrefixes == {<<"refs">>, <<"refs", "heads">>, <<"refs", "tags">>}

\* A chain of symbolic refs: HEAD names c0, c(i) names c(i+1) for i < len,
\* and c(len) holds the terminal blob.
ChainStore(len, terminal) ==
    [k \in RefKeys |->
        IF k = HeadKey THEN SymBlob(ChainKey(0), TRUE)
        ELSE IF \E i \in 0..(len - 1) : k = ChainKey(i)
        THEN SymBlob(ChainKey((CHOOSE i \in 0..(len - 1) : k = ChainKey(i)) + 1),
                     TRUE)
        ELSE IF k = ChainKey(len) THEN terminal
        ELSE Absent]

\* What a chain may end in: a direct OID with or without the newline, no
\* blob, a blob that is neither OID nor symbolic ref, or a symbolic ref back
\* into the chain (a cycle; back to itself when j = len).
ChainTerminals(len) ==
    {OidBlob(o, nl) : o \in OIDs, nl \in BOOLEAN}
        \cup {Absent, JunkBlob}
        \cup {SymBlob(ChainKey(j), TRUE) : j \in 0..len}

\* the lines a packed-refs blob may hold
PackedLines == {<<n, o>> : n \in {MainKey, TagKey}, o \in OIDs}

\* A ref store of symbolic chains, with or without a packed entry for the
\* end of the chain.
InitChain ==
    \E len \in 0..MaxChain :
        \E terminal \in ChainTerminals(len) :
            /\ refs = ChainStore(len, terminal)
            /\ packedRefs \in {None, Some(<<<<ChainKey(len), 1>>>>)}

\* A ref store of loose branch and tag refs next to a packed-refs blob.
InitPacked ==
    /\ \E m \in {Absent} \cup {OidBlob(o, TRUE) : o \in OIDs},
          t \in {Absent} \cup {OidBlob(o, TRUE) : o \in OIDs},
          f \in {Absent, SymBlob(MainKey, TRUE)} :
        refs = [k \in RefKeys |->
                  IF k = HeadKey THEN SymBlob(MainKey, TRUE)
                  ELSE IF k = MainKey THEN m
                  ELSE IF k = TagKey THEN t
                  ELSE IF k = FeatureKey THEN f
                  ELSE Absent]
    /\ packedRefs \in {None} \cup {Some(l) : l \in SeqsUpTo(PackedLines, 2)}

InitRefs ==
    /\ InitChain \/ InitPacked
    /\ loose = {}
    /\ packs = {}
    /\ idxs = [p \in {} |-> ZeroFanout]
    /\ InitRequests
    /\ overlap = FALSE
    /\ redisOn = FALSE
    /\ inp = NoQuery

\* a caller resolves a ref
Resolve(name) ==
    /\ out' = [op |-> "resolve_ref", arg |-> name,
               result |-> ResolveRef(refs, packedRefs, name)]
    /\ UNCHANGED <<refs, packedRefs, loose, packs, idxs, meta, pc, body,
                   updates, packData, cur, resp, existing, packPut, before,
                   lastPut, pushes, overlap,
                   cacheVars, advVars,
                   storeVars, callVars>>

\* a caller lists the refs under a prefix
List(prefix) ==
    /\ out' = [op |-> "list_refs", arg |-> prefix,
               result |-> ListRefs(refs, packedRefs, prefix)]
    /\ UNCHANGED <<refs, packedRefs, loose, packs, idxs, meta, pc, body,
                   updates, packData, cur, resp, existing, packPut, before,
                   lastPut, pushes, overlap,
                   cacheVars, advVars,
                   storeVars, callVars>>

NextRefs ==
    \/ \E name \in RefKeys : Resolve(name)
    \/ \E prefix \in RefPrefixes : List(prefix)

SpecRefs == InitRefs /\ [][NextRefs]_vars

\* A ref store whose HEAD blob holds an OID, next to no ref or to a tag.
InitDetached ==
    /\ \E o \in OIDs, nl \in BOOLEAN, t \in {Absent, OidBlob(1, TRUE)} :
          refs = [k \in RefKeys |->
                    IF k = HeadKey THEN OidBlob(o, nl)
                    ELSE IF k = TagKey THEN t
                    ELSE Absent]
    /\ packedRefs = None

\* info/refs requests on any of these ref stores
InitAdvRefs ==
    /\ InitChain \/ InitPacked \/ InitDetached
    /\ loose = {}
    /\ packs = {}
    /\ idxs = [p \in {} |-> ZeroFanout]
    /\ InitRequests
    /\ overlap = FALSE
    /\ redisOn = FALSE
    /\ inp = NoQuery

NextAdvRefs ==
    \/ \E service \in Services : AdvBegin(RepoPrefix, service)
    \/ AdvList
    \/ AdvInsert

SpecAdvRefs == InitAdvRefs /\ [][NextAdvRefs]_vars


\* =================================================================
\* Properties
\* =================================================================

\* handle_receive_pack has returned to the route
Returned(r) == pc[r] \in {"meta", "meta_write", "inval", "done"}

\* handle_receive_pack has returned after a pack put that succeeded: the
\* response starts with `unpack ok`
Succeeded(r) == Returned(r) /\ packPut[r] = "ok"

InPack(pack, oid) == \E j \in 1..Len(pack.objs) : pack.objs[j] = oid

IsBranchKey(key) == StartsWith(key, <<"refs", "heads">>) /\ Len(key) > 2

\* the value a ref blob has after a command with this new-oid was applied
BlobAfter(new) == IF new = Zero THEN Absent ELSE OidBlob(new, TRUE)

\* C1: after handle_receive_pack answered `unpack ok` for a body whose pack
\* holds object X and whose command set a branch ref to oid(X), with the
\* pack and its generated index stored, get_object(oid(X)) returns X and
\* not none.
C1_PushedObjectIsLocatable ==
    \A r \in Reqs :
        Succeeded(r) =>
            \A i \in 1..Len(updates[r]) :
                LET cmd == updates[r][i]
                    key == RefPath(cmd.name)
                IN (/\ IsBranchKey(key)
                    /\ cmd.new # Zero
                    /\ InPack(packData[r], cmd.new)
                    /\ packData[r] \in packs
                    /\ packData[r] \in DOMAIN idxs
                    /\ refs[key] = OidBlob(cmd.new, TRUE))
                   => GetObject(Store, cmd.new) = Some(Object(cmd.new))

\* the index of the last command of ups that names the ref key, 0 if none
LastCmd(ups, key) ==
    IF \E i \in 1..Len(ups) : RefPath(ups[i].name) = key
    THEN CHOOSE i \in 1..Len(ups) :
            /\ RefPath(ups[i].name) = key
            /\ \A j \in (i + 1)..Len(ups) : RefPath(ups[j].name) # key
    ELSE 0

\* C2: after a successful handle_receive_pack every ref named by a command
\* (under the key refname, or refs/heads/<refname> when refname does not
\* start with refs/) is absent when the last command naming it carries the
\* zero OID and holds `<new>` and a newline otherwise, and every ref named
\* by no command has the value it had before the request.
C2_RefsFollowCommands ==
    \A r \in Reqs :
        Succeeded(r) =>
            \A key \in RefKeys :
                refs[key] =
                    IF LastCmd(updates[r], key) = 0 THEN before[r][key]
                    ELSE BlobAfter(updates[r][LastCmd(updates[r], key)].new)

\* C3: when the pack put fails, the response is `ng unpack error` and every
\* ref has the value it had before the request.
C3_PackPutFailureLeavesRefs ==
    \A r \in Reqs :
        packPut[r] = "failed" =>
            /\ Returned(r)
            /\ resp[r] = NgResponse
            /\ refs = before[r]

\* C3 witness: a request whose pack put failed has returned, and one of its
\* commands would have changed a ref.
C3_Witness ==
    \E r \in Reqs :
        /\ packPut[r] = "failed"
        /\ pc[r] = "done"
        /\ \E i \in 1..Len(updates[r]) :
              refs[RefPath(updates[r][i].name)] # BlobAfter(updates[r][i].new)

\* the request that arrives in a step that begins one
Beginner == IF InFlight("r1") THEN "r2" ELSE "r1"

\* C4: for a body without the pack signature handle_receive_pack returns
\* exactly `000eunpack ok\n0000`, reports no updates, and leaves packs,
\* indices and refs unchanged, whatever commands the body carries.
C4_NoPackNoEffect ==
    [][(pushes' = pushes + 1 /\ ~IsSome(body'[Beginner].pack))
          => /\ resp'[Beginner] = MinResponse
             /\ updates'[Beginner] = <<>>
             /\ pc'[Beginner] = "done"
             /\ UNCHANGED blobVars]_vars

\* C4 witness: a request without a pack has been answered, and it carried a
\* command that would have changed a ref.
C4_Witness ==
    \E r \in Reqs :
        /\ pc[r] = "done"
        /\ ~IsSome(body[r].pack)
        /\ resp[r] = MinResponse
        /\ \E i \in 1..Len(body[r].cmds) :
              refs[RefPath(body[r].cmds[i].name)]
                  # BlobAfter(body[r].cmds[i].new)

\* two requests that overlapped have both returned with `unpack ok`, each
\* with one command, for the same ref and with different new-oids
SameRefRace ==
    /\ \A r \in Reqs : pc[r] = "done" /\ packPut[r] = "ok"
                         /\ Len(updates[r]) = 1
    /\ RefPath(updates["r1"][1].name) = RefPath(updates["r2"][1].name)
    /\ updates["r1"][1].new # Zero
    /\ updates["r2"][1].new # Zero
    /\ updates["r1"][1].new # updates["r2"][1].new

RaceKey == RefPath(updates["r1"][1].name)

\* C5: two concurrent requests that update one ref to different OIDs both
\* answer `ok` for the ref, whatever the stored value was when their put
\* ran, and the ref ends with the new-oid of the request whose put was
\* applied last.
C5_LastWriterWins ==
    SameRefRace =>
        /\ \A r \in Reqs :
              resp[r] = <<PktLine("unpack ok", <<>>),
                          PktLine("ok", updates[r][1].name), Flush>>
        /\ lastPut[RaceKey].req # "none" =>
              refs[RaceKey] =
                  OidBlob(updates[lastPut[RaceKey].req][1].new, TRUE)

\* C5 witness: the put of r2 was applied last and replaced the value r1 had
\* written, although the old-oid of r2 named another value.
C5_Witness ==
    /\ SameRefRace
    /\ lastPut[RaceKey].req = "r2"
    /\ lastPut[RaceKey].over = updates["r1"][1].new
    /\ updates["r2"][1].old # updates["r1"][1].new
    /\ refs[RaceKey] = OidBlob(updates["r2"][1].new, TRUE)

\* C6: whenever resolve_ref returns an OID for a branch or tag ref,
\* get_object of that OID returns an object.
C6_ResolvedRefHasObject ==
    \A key \in {MainKey, FeatureKey, TagKey} :
        IsSome(ResolveRef(refs, packedRefs, key)) =>
            IsSome(GetObject(Store, Val(ResolveRef(refs, packedRefs, key))))

IsPacked(pr, name) ==
    IsSome(pr) /\ \E i \in 1..Len(Val(pr)) : Val(pr)[i][1] = name

\* C7: for a name that is both in packed-refs and a loose ref under the
\* listed prefix, list_refs returns exactly one entry, and its OID is the
\* content of the loose blob.
C7_LooseHidesPacked ==
    out.op = "list_refs" =>
        \A name \in RefKeys :
            (/\ IsPacked(packedRefs, name)
             /\ refs[name].kind # "absent"
             /\ StartsWith(name, out.arg))
            => /\ Cardinality({i \in 1..Len(out.result) :
                                 out.result[i].name = name}) = 1
               /\ \A i \in 1..Len(out.result) :
                     out.result[i].name = name
                         => out.result[i].value = Trim(refs[name])

IsSymAt(rs, name) == name \in DOMAIN rs /\ rs[name].kind = "sym"

\* the name reached from name after k `ref: ` indirections, <<>> when the
\* chain ends before
RECURSIVE Target(_, _, _)
Target(rs, name, k) ==
    IF k = 0 THEN name
    ELSE LET t == Target(rs, name, k - 1)
         IN IF IsSymAt(rs, t) THEN rs[t].target ELSE <<>>

\* C8: resolve_ref ends with a result for every ref store, cyclic ones
\* included; the result is the direct OID when one is reached within 10
\* indirections, and none when the chain of indirections is longer than 10.
C8_ResolveIsBounded ==
    out.op = "resolve_ref" =>
        /\ \A k \in 0..MaxRefDepth :
              (/\ \A j \in 0..(k - 1) : IsSymAt(refs, Target(refs, out.arg, j))
               /\ Target(refs, out.arg, k) \in DOMAIN refs
               /\ refs[Target(refs, out.arg, k)].kind = "oid")
              => out.result = Some(refs[Target(refs, out.arg, k)].oid)
        /\ (\A j \in 0..MaxRefDepth : IsSymAt(refs, Target(refs, out.arg, j)))
              => out.result = None

\* C8 witness: a symbolic ref that names itself was resolved, to none.
C8_Witness ==
    /\ out.op = "resolve_ref"
    /\ IsSymAt(refs, out.arg)
    /\ refs[out.arg].target = out.arg
    /\ out.result = None

\* C9: when no request is in flight, a metadata row exists for a branch
\* exactly when the ref refs/heads/<branch> exists.
C9_RowIffRef ==
    (\A r \in Reqs : ~InFlight(r)) =>
        \A b \in Branches :
            meta[b].present <=> refs[<<"refs", "heads">> \o b].kind # "absent"

\* C10: when a push has moved a branch from old-oid to new-oid, the row
\* read for the update has head_oid = old-oid, old-oid is not zero and
\* old-oid is an ancestor of new-oid, the commit_count stored by the update
\* is the row's commit_count plus the number of commits from new-oid down
\* to but excluding old-oid, which is the number of commits from new-oid to
\* the root.
C10_IncrementalCount ==
    [][\A r \in Reqs :
          (pc[r] = "meta_write" /\ pc'[r] # "meta_write") =>
              LET cmd == updates[r][cur[r]]
                  b == Val(BranchOf(cmd.name))
              IN (/\ packPut[r] = "ok"
                  /\ refs[RefPath(cmd.name)] = OidBlob(cmd.new, TRUE)
                  /\ existing[r].present
                  /\ existing[r].head_oid = cmd.old
                  /\ cmd.old # Zero
                  /\ cmd.old <= cmd.new)
                 => /\ meta'[b].commit_count
                          = existing[r].commit_count + (cmd.new - cmd.old)
                    /\ meta'[b].commit_count = cmd.new]_vars

\* both requests of a race have had their ref put applied, r1 first: the
\* put of r2 replaced the value r1 had written over an absent ref
BothPutsApplied ==
    /\ SameRefRace
    /\ before["r1"][RaceKey] = Absent
    /\ lastPut[RaceKey].req = "r2"
    /\ lastPut[RaceKey].over = updates["r1"][1].new

\* C11: once every receive-pack request for a branch has completed, two
\* concurrent ones included, the row's head_oid and last_commit_oid are the
\* OID resolve_ref returns for the branch.  Stated for two overlapping
\* requests on one branch whose pack and ref puts were all applied and
\* whose new commits the object store can read.
C11_RowMatchesRef ==
    (/\ BothPutsApplied
     /\ IsBranchKey(RaceKey)
     /\ \A r \in Reqs : IsSome(GetObject(Store, updates[r][1].new)))
    => LET b == Val(BranchOf(updates["r1"][1].name))
       IN /\ meta[b].present
          /\ Some(meta[b].head_oid) = ResolveRef(refs, packedRefs, RaceKey)
          /\ Some(meta[b].last_commit_oid)
                = ResolveRef(refs, packedRefs, RaceKey)

\* C12: when the route upserts the row of a branch after an accepted push
\* that moved the branch to new-oid (pack and ref put applied, the commit
\* readable), the row's root_tree and readme_oid are those of the root tree
\* of commit new-oid, whatever tree listing the shared cache held for the
\* branch when the push arrived.
C12_RootTreeOfNewHead ==
    [][(pc["r1"] = "meta_write" /\ pc'["r1"] # "meta_write") =>
          LET cmd == updates["r1"][cur["r1"]]
              b == Val(BranchOf(cmd.name))
          IN (/\ packPut["r1"] = "ok"
              /\ refs[RefPath(cmd.name)] = OidBlob(cmd.new, TRUE)
              /\ IsSome(GetCommitByOid(Store, cmd.new)))
             => rowTree'[b] = Listing(cmd.new)]_vars

\* C13: after a receive-pack that moved a branch has returned, no tree or
\* file entry of the branch in the shared cache holds a value computed from
\* the head the branch had before the push, under every interleaving with
\* read requests.
C13_NoStaleEntryAfterPush ==
    \A i \in 1..Len(updates["r1"]) :
        LET cmd == updates["r1"][i]
            key == RefPath(cmd.name)
        IN (/\ pc["r1"] = "done"
            /\ packPut["r1"] = "ok"
            /\ IsSome(BranchOf(cmd.name))
            /\ refs[key] = OidBlob(cmd.new, TRUE)
            /\ OldOid(before["r1"], key) \notin {Zero, cmd.new})
           => \A kind \in Kinds :
                 cache[Val(BranchOf(cmd.name))][kind]
                    # Some(Listing(OldOid(before["r1"], key)))

\* the one push of the behaviour has returned after its update of a branch
\* was applied: the branch names commit `new`, which it did not before
PushMoved(key, new) ==
    /\ pc["r1"] = "done"
    /\ packPut["r1"] = "ok"
    /\ \E i \in 1..Len(updates["r1"]) :
          /\ RefPath(updates["r1"][i].name) = key
          /\ updates["r1"][i].new = new
    /\ IsBranchKey(key)
    /\ new # Zero
    /\ refs[key] = OidBlob(new, TRUE)
    /\ before["r1"][key] # refs[key]

Advertises(packets, key, new) ==
    \E i \in 1..Len(packets) :
        packets[i].name = key /\ packets[i].value = OidBlob(new, FALSE)

\* C14: with a time to live T > 0, once more than T has passed since a
\* receive-pack that moved a branch returned (and no push came later), the
\* advertisement an info/refs request is answered with from the cache names
\* the branch at its new head, under every interleaving of the requests.
C14_FreshAdvertisementIsCurrent ==
    \A key \in RefKeys, new \in OIDs, service \in Services :
        (PushMoved(key, new) /\ age > Ttl /\ Fresh(service))
        => Advertises(Val(infoRefs[CacheKey(RepoPrefix, service)]).packets,
                      key, new)

\* C15: on one store instance, once handle_receive_pack has stored a new
\* pack and its index, the next pack lookup lists the new index, also when
\* an earlier get_object has cached the pack list.
C15_NewIndexIsListed ==
    (/\ pc["r1"] \notin {"idle", "put_pack", "put_idx"}
     /\ packPut["r1"] = "ok"
     /\ packData["r1"] \in DOMAIN idxs)
    => packData["r1"] \in GetPackIdxFiles(packListCache, Store)

RECURSIVE Instructions(_, _)
Instructions(delta, pos) ==
    IF pos >= Len(delta) THEN <<>>
    ELSE LET cmd == delta[pos + 1] IN
         IF cmd >= 128
         THEN LET c == CopyOperands(delta, cmd, pos + 1) IN
              <<[kind |-> "copy", offset |-> c.copy_offset,
                 size |-> c.copy_size]>> \o Instructions(delta, c.pos)
         ELSE IF cmd = 0
         THEN <<[kind |-> "zero", offset |-> pos, size |-> 0]>>
         ELSE <<[kind |-> "insert", offset |-> pos + 1, size |-> cmd]>>
                 \o (IF pos + 1 + cmd > Len(delta) THEN <<>>
                     ELSE Instructions(delta, pos + 1 + cmd))

\* the instruction can be carried out
Applicable(base, delta, ins) ==
    CASE ins.kind = "copy" -> ins.offset + ins.size <= Len(base)
      [] ins.kind = "insert" -> ins.offset + ins.size <= Len(delta)
      [] OTHER -> FALSE

\* the bytes the instructions produce, one after the other
RECURSIVE Produced(_, _, _)
Produced(base, delta, instrs) ==
    IF instrs = <<>> THEN <<>>
    ELSE LET ins == Head(instrs)
             src == IF ins.kind = "copy" THEN base ELSE delta
         IN SubSeq(src, ins.offset + 1, ins.offset + ins.size)
               \o Produced(base, delta, Tail(instrs))

\* C20: apply_delta returns a result exactly when both sizes can be read,
\* every COPY has copy_offset + copy_size <= len(base) (a size of 0 standing
\* for 0x10000), the literal bytes of every INSERT lie inside the delta, no
\* instruction byte is 0x00 and the length produced is the target size; the
\* result is then the bytes the instructions produce, in order; every other
\* delta is rejected.
C20_ApplyDelta ==
    out.op = "apply_delta" =>
        LET base == out.arg.base
            delta == out.arg.delta
            src == ReadVarint(delta)
            dst == IF IsSome(src)
                   THEN ReadVarint(From(delta, Val(src).read)) ELSE None
            instrs == IF IsSome(dst)
                      THEN Instructions(delta, Val(src).read + Val(dst).read)
                      ELSE <<>>
            accepted ==
                /\ IsSome(dst)
                /\ \A i \in 1..Len(instrs) : Applicable(base, delta, instrs[i])
                /\ Len(Produced(base, delta, instrs)) = Val(dst).value
        IN IF accepted
           THEN out.result = Some(Produced(base, delta, instrs))
           ELSE out.result = None

\* a delta of a COPY and an INSERT was applied
C20_Witness ==
    /\ out.op = "apply_delta"
    /\ out.arg.base = <<7, 8>>
    /\ out.arg.delta = <<2, 2, 144, 1, 1, 2>>
    /\ out.result = Some(<<7, 2>>)

\* the delta chain of the object asked for never reaches a non-delta base
\* the objects of each shape whose delta chain never reaches a non-delta
\* base
BaselessObjects ==
    [ofs_zero |-> {2}, ofs_header |-> {1}, ofs_before_start |-> {1},
     ofs_far |-> {1}, ofs_ref_cycle |-> {1, 2},
     ref_cycle_under_ofs |-> {1, 2, 3}, ref_cycle |-> {1, 2},
     ref_self |-> {1}, ref_missing |-> {1}]

Baseless ==
    \/ /\ inp.shape \in DOMAIN BaselessObjects
       /\ inp.oid \in BaselessObjects[inp.shape]
    \/ inp.shape = "chain" /\ inp.end \in {"missing", "cycle"}

\* C17: get_object terminates and returns none for every pack content in
\* which the delta chain of the object never reaches a non-delta base, an
\* OFS_DELTA with back-offset 0 and a REF_DELTA cycle inside one pack
\* included.
C17_BaselessChainReturnsNone ==
    (out.op = "get_object" /\ Baseless) => out.result.st = "none"

LastThree(bytes) == SubSeq(bytes, Len(bytes) - 2, Len(bytes))

\* the object a chain of n deltas stands for: the base with the deltas of
\* objects n, n - 1, ..., 1 applied in this order
Reconstructed(n, end) ==
    LET base == IF end = "ofs" THEN LastThree(BaseContent \o <<9>>)
                ELSE BaseContent
    IN Obj("commit",
           LastThree(base \o [i \in 1..n |-> 10 + (n + 1 - i)]))

\* C18: for a REF_DELTA whose base chain crosses packs and whose deltas all
\* apply, get_object returns the reconstructed object when the chain has at
\* most 100 REF_DELTA hops before its base (a plain object, loose or packed,
\* or an object its pack extracts), and none when it has more or forms a
\* cycle.
C18_CrossPackChain ==
    (out.op = "get_object" /\ inp.shape = "chain" /\ inp.bad = 0) =>
        /\ (inp.end \in {"packed", "loose", "ofs"} /\ inp.n <= MaxHops)
              => out.result = SomeR(Reconstructed(inp.n, inp.end))
        /\ (inp.n > MaxHops \/ inp.end = "cycle") => out.result.st = "none"

\* a chain of 100 hops over two packs was reconstructed
C18_Witness ==
    /\ out.op = "get_object"
    /\ inp.shape = "chain"
    /\ inp.bad = 0
    /\ inp.split = 2
    /\ inp.n = MaxHops
    /\ inp.end = "packed"
    /\ out.result = SomeR(Obj("commit", <<13, 12, 11>>))

\* C19: when a delta on a cross-pack REF_DELTA chain cannot be applied,
\* get_object reports the object missing; it never returns bytes computed
\* with that delta left out.
C19_BadDeltaIsMissing ==
    (out.op = "get_object" /\ inp.shape = "chain" /\ inp.bad # 0)
        => out.result.st = "none"

\* C21: when an OID is in several packs and one of them is unreadable (bad
\* index magic or version, missing pack blob, undecodable entry),
\* get_object returns the object from the readable pack, in either listing
\* order.
C21_ReadablePackServes ==
    (out.op = "get_object" /\ inp.shape = "dup")
        => out.result = SomeR(Obj("commit", BaseContent))

\* C24: for a body with a pack and n well-formed commands whose pack put
\* succeeds, the response is `unpack ok`, then `ok <refname>` for each
\* command in command order with the refname as sent, then the flush.
C24_ReportPerCommand ==
    \A r \in Reqs :
        (resp[r] # <<>> /\ IsSome(body[r].pack) /\ packPut[r] = "ok") =>
            /\ Len(resp[r]) = Len(body[r].cmds) + 2
            /\ resp[r][1] = PktLine("unpack ok", <<>>)
            /\ \A i \in 1..Len(body[r].cmds) :
                  resp[r][i + 1] = PktLine("ok", body[r].cmds[i].name)
            /\ resp[r][Len(resp[r])] = Flush

\* the OIDs an OID leads to, as C22 names them: a commit to its tree and
\* each parent, a tree to each entry
EdgeSet(stored, oid) ==
    IF oid \notin stored THEN {}
    ELSE IF Graph[oid].type = "commit"
    THEN {Graph[oid].tree[i] : i \in 1..Len(Graph[oid].tree)}
            \cup {Graph[oid].parents[i] : i \in 1..Len(Graph[oid].parents)}
    ELSE IF Graph[oid].type = "tree"
    THEN {Graph[oid].entries[i] : i \in 1..Len(Graph[oid].entries)}
    ELSE {}

RECURSIVE ReachableFrom(_, _)
ReachableFrom(stored, S) ==
    IF UNION {EdgeSet(stored, o) : o \in S} \subseteq S THEN S
    ELSE ReachableFrom(stored, S \cup UNION {EdgeSet(stored, o) : o \in S})

\* the elements of a sequence
Range(seq) == {seq[i] : i \in 1..Len(seq)}

WantSet == {l.oid : l \in {m \in Range(inp.lines) : m.kind = "want"}}

HaveSet == {l.oid : l \in {m \in Range(inp.lines) : m.kind = "have"}}

\* a response of the pkt-line NAK and a version-2 packfile of the objects X,
\* each once
NakAndPackOf(response, X) ==
    /\ Len(response) = 2
    /\ response[1] = Part("0008NAK")
    /\ response[2].kind = "PACK"
    /\ response[2].version = 2
    /\ response[2].count = Cardinality(X)
    /\ Len(response[2].objects) = Cardinality(X)
    /\ Range(response[2].objects) = X

\* C22: handle_upload_pack answers `0000` to a body without a want line,
\* NAK and the flush when every object reachable from the wants is in the
\* have-set, and otherwise NAK followed by a version-2 packfile whose count
\* and objects are the reachable objects minus the have-set, each once.
\* The reachable objects may be read as the reachable OIDs or as those of
\* them the store holds; the formula accepts both readings.
C22_UploadResponse ==
    (out.op = "upload_pack" /\ out.result.st = "ok") =>
        LET response == out.result.response
            neededOids == ReachableFrom(inp.stored, WantSet) \ HaveSet
            neededObjs == neededOids \cap inp.stored
        IN IF WantSet = {} THEN response = <<Part("0000")>>
           ELSE IF neededOids = {}
           THEN response = <<Part("0008NAK"), Part("0000")>>
           ELSE \/ neededObjs = {}
                   /\ response = <<Part("0008NAK"), Part("0000")>>
                \/ NakAndPackOf(response, neededOids)
                \/ neededObjs # {} /\ NakAndPackOf(response, neededObjs)

\* C23: every call of handle_upload_pack completes with a response, and a
\* body with a `want ` or `have ` line of fewer than 40 OID characters is
\* answered with the minimum compliant response `0000`.
C23_UploadCompletes ==
    out.op = "upload_pack" =>
        /\ out.result.st = "ok"
        /\ (\E i \in 1..Len(inp.lines) : ~inp.lines[i].full)
              => out.result.response = <<Part("0000")>>

\* the capability the upload-pack advertisement names the default branch with
SymrefCapability == "symref=HEAD:refs/heads/main"

\* C25: when at least one ref is listed, the first pkt-line of the
\* advertisement and no other carries the capability list; it is `<H> HEAD`
\* when HEAD resolves to H and the first listed ref otherwise, and the
\* capability list of git-upload-pack holds symref=HEAD:refs/heads/main.
C25_FirstLineCarriesCapabilities ==
    (out.op = "info_refs" /\ ListedRefs(refs, packedRefs) # <<>>) =>
        LET head == ResolveRef(refs, packedRefs, HeadKey)
            first == out.result[1]
        IN /\ Len(out.result) >= 2
           /\ first.caps = Capabilities(out.arg)
           /\ first.caps # <<>>
           /\ \A i \in 2..(Len(out.result) - 1) : out.result[i].caps = <<>>
           /\ out.result[Len(out.result)] = AdvFlush
           /\ IF IsSome(head)
              THEN first.name = HeadKey
                      /\ first.value = OidBlob(Val(head), FALSE)
              ELSE first.name = ListedRefs(refs, packedRefs)[1].name
                      /\ first.value = ListedRefs(refs, packedRefs)[1].value
           /\ out.arg = "git-upload-pack"
                 => SymrefCapability \in Range(first.caps)

\* two refs or more are listed, HEAD does not resolve, and an upload-pack
\* advertisement was returned
C25_Witness ==
    /\ out.op = "info_refs"
    /\ Len(ListedRefs(refs, packedRefs)) >= 2
    /\ ~IsSome(ResolveRef(refs, packedRefs, HeadKey))
    /\ out.arg = "git-upload-pack"

\* C26: when list_refs returns nothing for refs/heads and refs/tags, the
\* advertisement is the one pkt-line `<40 zeros> capabilities^{}`, NUL, the
\* capabilities of the service, followed by the flush, whether or not HEAD
\* resolves.
C26_EmptyAdvertisement ==
    (out.op = "info_refs" /\ ListedRefs(refs, packedRefs) = <<>>) =>
        out.result = <<AdvLine(OidBlob(Zero, FALSE), <<"capabilities^{}">>,
                               Capabilities(out.arg)), AdvFlush>>

\* no ref is listed, HEAD resolves, and an advertisement was returned
C26_Witness ==
    /\ out.op = "info_refs"
    /\ ListedRefs(refs, packedRefs) = <<>>
    /\ IsSome(ResolveRef(refs, packedRefs, HeadKey))

\* the advertisement of the refs under a prefix, for a service
AdvertisementOf(prefix, service) ==
    BuildAdvertisement(RefsOf(prefix), PackedRefsOf(prefix), service)

\* a step that answers a request from the cache
ReturnsCached(prefix, service) ==
    /\ out' # out
    /\ out'.op = "info_refs"
    /\ out'.hit
    /\ out'.prefix = prefix
    /\ out'.arg = service

\* C27, the lookups: an advertisement is returned from the cache only when
\* it is the entry of the key and was inserted less than the time to live
\* ago.
C27_CachedIsYoung ==
    [][\A prefix \in Prefixes, service \in Services :
          ReturnsCached(prefix, service) =>
              /\ ttl > 0
              /\ IsSome(infoRefs[CacheKey(prefix, service)])
              /\ out'.result = Val(infoRefs[CacheKey(prefix, service)]).packets
              /\ clock - Val(infoRefs[CacheKey(prefix, service)]).at < ttl]_vars

\* C27, the keys and the bypass: what a request is answered with is the
\* advertisement of its repository and service, whether built or cached;
\* the keys of two requests are equal only when prefix and service are; and
\* with a time to live of 0 the cache stays empty.
C27_KeyedAndBypassed ==
    /\ out.op = "info_refs"
          => out.result = AdvertisementOf(out.prefix, out.arg)
    /\ \A p1 \in Prefixes, p2 \in Prefixes, s1 \in Services, s2 \in Services :
          CacheKey(p1, s1) = CacheKey(p2, s2) => (p1 = p2 /\ s1 = s2)
    /\ ttl = 0 => /\ \A k \in DOMAIN infoRefs : infoRefs[k] = None
                  /\ out.op = "info_refs" => ~out.hit

\* C27: get_refs_advertisement never returns a cached advertisement that
\* was inserted TTL or more ago, an entry is returned only for the prefix
\* and service it was built for, and with TTL = 0 the cache is neither read
\* nor written.
C27_CacheLookup == []C27_KeyedAndBypassed /\ C27_CachedIsYoung

\* a request for one repository is answered from the cache, a time to live
\* or more after the start, while the cache holds an entry of the same
\* service for the other repository
C27_Witness ==
    /\ out.op = "info_refs"
    /\ out.hit
    /\ out.prefix = OtherPrefix
    /\ IsSome(infoRefs[CacheKey(RepoPrefix, out.arg)])
    /\ ttl > 0
    /\ clock >= ttl

ReturnedUser(op) == out.op = op /\ IsSome(out.result)

\* C29: SessionCache.get never returns a user whose expiry is at or before
\* the current time, BasicAuthCache.get never returns a user TTL or more
\* after the set of the key, and a read that finds an expired entry removes
\* it from the map.
C29_ExpiredIsNotServed ==
    /\ [](ReturnedUser("session_get") => out.expires_at > out.now)
    /\ [](ReturnedUser("basic_get") => out.now - out.set_at < BasicTtl)
    /\ [][\A token \in Tokens :
            (/\ SessionGet(token)
             /\ IsSome(sessionCache[token])
             /\ Val(sessionCache[token]).expires_at <= clock)
            => sessionCache'[token] = None]_vars
    /\ [][\A key \in BasicKeys :
            (/\ BasicGet(key)
             /\ IsSome(basicAuthCache[key])
             /\ Val(basicAuthCache[key]).expires_at <= clock)
            => basicAuthCache'[key] = None]_vars

\* the blob a ref holds once a command is applied
AppliedBlob(cmd) == IF cmd.new = Zero THEN Absent ELSE OidBlob(cmd.new, TRUE)

\* every ref named by a command of the request is as its last command
\* leaves it, and the other refs are as they were
AllApplied(r) ==
    \A key \in RefKeys :
        refs[key] = IF LastCmd(updates[r], key) = 0 THEN before[r][key]
                    ELSE AppliedBlob(updates[r][LastCmd(updates[r], key)])

\* C30: a receive-pack request that is cancelled at a suspension point
\* leaves the persistent state as it was but for a pack without index, or
\* for a pack and index whose ref updates are not applied; no state is left
\* in which only part of the commands has been applied.  (The formula also
\* accepts the state in which every command has been applied.)
C30_CancelLeavesNoPartialUpdate ==
    pc["r1"] = "cancelled" => (refs = before["r1"] \/ AllApplied("r1"))

\* C31: after every receive-pack that answers `unpack ok` having stored
\* objects/pack/pack-<sha>.pack, the blob objects/pack/pack-<sha>.idx also
\* exists, and in no state does an index exist without its pack.
C31_PackHasIndex ==
    /\ \A r \in Reqs :
          (Succeeded(r) /\ packData[r] \in packs)
              => packData[r] \in DOMAIN idxs
    /\ \A p \in DOMAIN idxs : p \in packs

\* =================================================================
\* pkt-lines (pack.rs parse_pkt_lines, refs.rs and pack.rs writers)
\* =================================================================

\* A stream is a sequence of bytes.  The bytes of a payload: a letter, a
\* space, a line feed, and a byte that is not valid UTF-8 on its own.
PayloadBytes == {"x", "sp", "lf", "ff"}

Whitespace == {"sp", "lf"}

HexDigits ==
    <<"0", "1", "2", "3", "4", "5", "6", "7",
      "8", "9", "a", "b", "c", "d", "e", "f">>

IsHex(c) == \E i \in 1..16 : HexDigits[i] = c

HexValue(c) == (CHOOSE i \in 1..16 : HexDigits[i] = c) - 1

\* format!("{:04x}", n)
Hex4(n) ==
    <<HexDigits[((n \div 4096) % 16) + 1], HexDigits[((n \div 256) % 16) + 1],
      HexDigits[((n \div 16) % 16) + 1], HexDigits[(n % 16) + 1]>>

\* u16::from_str_radix(len_hex, 16).unwrap_or(0)
ParseHex4(four) ==
    IF \A i \in 1..4 : IsHex(four[i])
    THEN 4096 * HexValue(four[1]) + 256 * HexValue(four[2])
             + 16 * HexValue(four[3]) + HexValue(four[4])
    ELSE 0

\* a frame of a stream: a line, or the flush frame `0000`
LineFrame(data) == [flush |-> FALSE, data |-> data]

FlushFrame == [flush |-> TRUE, data |-> <<>>]

\* the writers: the length of the line plus 4 as four hex digits, then the
\* line; a flush frame is the four bytes 0000
EncodeFrame(f) ==
    IF f.flush THEN <<"0", "0", "0", "0">>
    ELSE Hex4(Len(f.data) + 4) \o f.data

RECURSIVE EncodeStream(_)
EncodeStream(frames) ==
    IF frames = <<>> THEN <<>>
    ELSE EncodeFrame(Head(frames)) \o EncodeStream(Tail(frames))

\* str::from_utf8(line_data).is_ok()
IsUtf8(bytes) == \A i \in 1..Len(bytes) : bytes[i] # "ff"

RECURSIVE TrimStart(_)
TrimStart(s) ==
    IF s # <<>> /\ Head(s) \in Whitespace THEN TrimStart(Tail(s)) ELSE s

RECURSIVE TrimEnd(_)
TrimEnd(s) ==
    IF s # <<>> /\ s[Len(s)] \in Whitespace
    THEN TrimEnd(SubSeq(s, 1, Len(s) - 1)) ELSE s

\* str::trim
TrimLine(s) == TrimEnd(TrimStart(s))

\* the length field at the offset (offsets count from 0)
LenAt(data, offset) == ParseHex4(SubSeq(data, offset + 1, offset + 4))

\* parse_pkt_lines: whether the loop ends at this offset
ParseStops(data, offset) ==
    \/ offset >= Len(data)
    \/ offset + 4 > Len(data)
    \/ (LenAt(data, offset) # 0 /\ LenAt(data, offset) < 4)
    \/ offset + LenAt(data, offset) > Len(data)

\* parse_pkt_lines: the offset after the frame at this offset
OffsetAfter(data, offset) ==
    IF LenAt(data, offset) = 0 THEN offset + 4
    ELSE offset + LenAt(data, offset)

\* parse_pkt_lines: the lines after the frame at this offset; a flush frame
\* adds nothing, a line is trimmed, a line that is not UTF-8 is left out
LinesAfter(data, offset, lines) ==
    LET line_data == SubSeq(data, offset + 5, offset + LenAt(data, offset))
    IN IF LenAt(data, offset) = 0 \/ ~IsUtf8(line_data) THEN lines
       ELSE Append(lines, TrimLine(line_data))

RECURSIVE ParseLoop(_, _, _)
ParseLoop(data, offset, lines) ==
    IF ParseStops(data, offset) THEN lines
    ELSE ParseLoop(data, OffsetAfter(data, offset),
                   LinesAfter(data, offset, lines))

ParsePktLines(data) == ParseLoop(data, 0, <<>>)

\* a caller parses a stream
ParseCall ==
    /\ inp.op = "parse_pkt_lines"
    /\ out.op = "none"
    /\ out' = [op |-> "parse_pkt_lines", arg |-> inp,
               result |-> ParsePktLines(inp.data)]
    /\ UNCHANGED <<refs, packedRefs, loose, packs, idxs, meta, pc, body,
                   updates, packData, cur, resp, existing, packPut, before,
                   lastPut, pushes, overlap, cacheVars, advVars, storeVars,
                   callVars>>

\* the frames of the streams: the flush frame and the lines of up to
\* MaxPayload bytes
Frames ==
    {FlushFrame} \cup {LineFrame(d) : d \in SeqsUpTo(PayloadBytes, MaxPayload)}

InitPkt ==
    /\ refs = [k \in RefKeys |-> Absent]
    /\ packedRefs = None
    /\ loose = {}
    /\ packs = {}
    /\ idxs = [p \in {} |-> ZeroFanout]
    /\ InitRequests
    /\ overlap = FALSE
    /\ redisOn = FALSE
    /\ \E frames \in SeqsUpTo(Frames, MaxFrames) :
          inp = [op |-> "parse_pkt_lines", frames |-> frames,
                 data |-> EncodeStream(frames)]

NextPkt == ParseCall

SpecPkt == InitPkt /\ [][NextPkt]_vars

\* C32: for every list of lines, parsing the pkt-line encoding of the list
\* with parse_pkt_lines returns the same lines unchanged, and the `0000`
\* flush frames of the stream are reported as separators rather than
\* dropped: the result has one element for every frame of the stream, and
\* the element of a line is that line.
C32_PktRoundTrip ==
    (out.op = "parse_pkt_lines"
        /\ \A i \in 1..Len(out.arg.frames) : IsUtf8(out.arg.frames[i].data))
    => /\ Len(out.result) = Len(out.arg.frames)
       /\ \A i \in 1..Len(out.arg.frames) :
             ~out.arg.frames[i].flush
                 => out.result[i] = out.arg.frames[i].data

\* Reads of the three caches while time passes: sessions and basic-auth
\* users are cached and read, and info/refs requests are served.
InitExpiry == InitInfoRefs

NextExpiry ==
    \/ \E token \in Tokens, expires_at \in 1..MaxTime :
          SessionSet(token, "u1", expires_at)
    \/ \E token \in Tokens : SessionGet(token)
    \/ \E key \in BasicKeys : BasicSet(key, "u1")
    \/ \E key \in BasicKeys : BasicGet(key)
    \/ AdvBegin(RepoPrefix, "git-upload-pack")
    \/ AdvList
    \/ AdvInsert
    \/ Tick

SpecExpiry == InitExpiry /\ [][NextExpiry]_vars

\* a read is blocked in cache.remove on the lock of its own entry reference
ReadBlocked ==
    \/ AnyLocked(sessionCache)
    \/ AnyLocked(basicAuthCache)
    \/ AnyLocked(infoRefs)
    \/ adv.pc = "blocked"

\* C33: a read that finds an expired cache entry completes: SessionCache.get
\* and BasicAuthCache.get return none and get_refs_advertisement returns a
\* rebuilt advertisement; the removal of the entry never blocks for ever on
\* the map lock that the same read still holds through its entry reference.
C33_ExpiredReadCompletes ==
    /\ []~ReadBlocked
    /\ [][\A token \in Tokens :
            (/\ SessionGet(token)
             /\ IsSome(sessionCache[token])
             /\ Val(sessionCache[token]).expires_at <= clock)
            => ~IsSome(sessionCache'[token])]_vars
    /\ [][\A key \in BasicKeys :
            (/\ BasicGet(key)
             /\ IsSome(basicAuthCache[key])
             /\ Val(basicAuthCache[key]).expires_at <= clock)
            => ~IsSome(basicAuthCache'[key])]_vars
    /\ [][(/\ AdvBegin(RepoPrefix, "git-upload-pack")
           /\ IsSome(infoRefs[CacheKey(RepoPrefix, "git-upload-pack")])
           /\ ~FreshAt(CacheKey(RepoPrefix, "git-upload-pack")))
          => /\ adv'.pc = "list"
             /\ ~IsSome(infoRefs'[CacheKey(RepoPrefix,
                                           "git-upload-pack")])]_vars

\* a step of the route of request r
StepOf(r) == pc'[r] # pc[r] \/ cur'[r] # cur[r]

\* C34: when handle_receive_pack answers `ng unpack error`, the receive-pack
\* route changes no branch-metadata row and drops no shared-cache key.
C34_NgLeavesMetadataAndCache ==
    [][\A r \in Reqs :
          (packPut[r] = "failed" /\ resp[r] = NgResponse /\ StepOf(r))
          => /\ meta' = meta
             /\ rowTree' = rowTree
             /\ \A b \in Branches, kind \in Kinds :
                   IsSome(cache[b][kind]) => IsSome(cache'[b][kind])]_vars

\* the body of request r holds a packfile and a command for a refname with
\* the signature bytes in it
SignatureInName(r) ==
    /\ IsSome(body[r].pack)
    /\ \E i \in 1..Len(body[r].cmds) : HoldsSignature(body[r].cmds[i].name)

\* C35: a push whose command section contains the bytes `PACK` inside a ref
\* name (refs/heads/PACKAGE) is split at the packfile's own header: the
\* command is parsed, the ref is set to new-oid and reported ok, and the
\* stored pack blob begins with the packfile header (it is the payload the
\* client sent) rather than with bytes of the command section.
C35_SplitAtPackHeader ==
    \A r \in Reqs :
        (Succeeded(r) /\ SignatureInName(r)) =>
            /\ updates[r] = ParseCommands(body[r].cmds)
            /\ packData[r] = Val(body[r].pack)
            /\ packData[r] \in packs
            /\ \A i \in 1..Len(body[r].cmds) :
                  HoldsSignature(body[r].cmds[i].name) =>
                      /\ \E j \in 1..Len(resp[r]) :
                            resp[r][j] = PktLine("ok", body[r].cmds[i].name)
                      /\ \E key \in DOMAIN refs :
                            /\ key = RefPath(body[r].cmds[i].name)
                            /\ refs[key] # Absent

\* =================================================================
\* The bytes of the receive-pack response (pack.rs handle_receive_pack)
\* =================================================================

\* a pkt-line as written: the four bytes of its prefix and its payload
WireLine(prefix, payload) ==
    [flush |-> FALSE, prefix |-> prefix, payload |-> payload]

\* the flush packet, the four bytes 0000
WireFlush ==
    [flush |-> TRUE, prefix |-> <<"0", "0", "0", "0">>, payload |-> ""]

\* b"000eunpack ok\n0000"
MinWire == <<WireLine(<<"0", "0", "0", "e">>, "unpack ok\n"), WireFlush>>

\* format!("0019ng unpack error {}\n0000", e)
NgWire(e) ==
    <<WireLine(<<"0", "0", "1", "9">>, "ng unpack error " \o e \o "\n"),
      WireFlush>>

\* format!("{:04x}{}", line.len() + 4, line)
Prefixed(line) == WireLine(Hex4(Len(line) + 4), line)

\* the status report: `unpack ok`, `ok <refname>` per update, the flush
ReportWire(names) ==
    <<Prefixed("unpack ok\n")>>
        \o [i \in 1..Len(names) |-> Prefixed("ok " \o names[i] \o "\n")]
        \o <<WireFlush>>

\* handle_receive_pack: the response by the way the call ends: without a
\* signature in the body, with the pack put rejected with the error e, or
\* with the report
ResponseBytes(call) ==
    IF call.ends = "no_pack" THEN MinWire
    ELSE IF call.ends = "put_failed" THEN NgWire(call.e)
    ELSE ReportWire(call.names)

\* a call of handle_receive_pack returns its response
RespondCall ==
    /\ inp.op = "handle_receive_pack"
    /\ out.op = "none"
    /\ out' = [op |-> "handle_receive_pack", arg |-> inp,
               result |-> ResponseBytes(inp)]
    /\ UNCHANGED <<refs, packedRefs, loose, packs, idxs, meta, pc, body,
                   updates, packData, cur, resp, existing, packPut, before,
                   lastPut, pushes, overlap, cacheVars, advVars, storeVars,
                   callVars>>

\* the error messages of the blob store: texts of 0 to 10 bytes
MsgParts == {"", "e", "er", "err", "erro", "error"}

ErrorMessages == {p \o q : p \in MsgParts, q \in MsgParts}

\* the refnames of the updates
WireNames ==
    {"main", "refs/heads/main", "refs/tags/v1", "refs/heads/feature",
     "feature"}

RespondCalls ==
    {[op |-> "handle_receive_pack", ends |-> "no_pack", e |-> "",
      names |-> <<>>]}
    \cup {[op |-> "handle_receive_pack", ends |-> "put_failed", e |-> e,
           names |-> <<>>] : e \in ErrorMessages}
    \cup {[op |-> "handle_receive_pack", ends |-> "report", e |-> "",
           names |-> n] : n \in SeqsUpTo(WireNames, MaxCmds)}

InitWire ==
    /\ refs = [k \in RefKeys |-> Absent]
    /\ packedRefs = None
    /\ loose = {}
    /\ packs = {}
    /\ idxs = [p \in {} |-> ZeroFanout]
    /\ InitRequests
    /\ overlap = FALSE
    /\ redisOn = FALSE
    /\ inp \in RespondCalls

NextWire == RespondCall

SpecWire == InitWire /\ [][NextWire]_vars

\* C36: every pkt-line emitted by handle_receive_pack, including the
\* `ng unpack error <msg>` line for every error message, has a prefix of
\* four hex digits whose value is 4 plus the length of its payload.
C36_PrefixIsLength ==
    out.op = "handle_receive_pack" =>
        \A i \in 1..Len(out.result) :
            ~out.result[i].flush =>
                /\ Len(out.result[i].prefix) = 4
                /\ \A k \in 1..4 : IsHex(out.result[i].prefix[k])
                /\ ParseHex4(out.result[i].prefix)
                      = 4 + Len(out.result[i].payload)

\* C37: handle_receive_pack reports `ok <refname>` for a command only if the
\* write or delete of that ref blob succeeded; when the blob store rejects
\* the ref put, the ref is not reported as ok and is not passed on as an
\* applied update.
C37_OkOnlyIfWritten ==
    \A r \in Reqs :
        Succeeded(r) =>
            \A key \in RefKeys :
                lastPut[key].req # r =>
                    /\ \A j \in 1..Len(resp[r]) :
                          resp[r][j].tag = "ok"
                              => RefPath(resp[r][j].name) # key
                    /\ \A i \in 1..Len(updates[r]) :
                          RefPath(updates[r][i].name) # key

\* C38: in every advertisement each ref name appears in at most one
\* pkt-line, both when HEAD resolves and when it does not (the ref chosen
\* as first line is not advertised a second time).
C38_EachRefOnce ==
    out.op = "info_refs" =>
        \A i, j \in 1..(Len(out.result) - 1) :
            i # j => out.result[i].name # out.result[j].name

\* =================================================================
\* The commit count of a branch row (api_old routes/git.rs, handler.rs)
\* =================================================================

\* build_branch_metadata is called for an update old -> new of a branch
\* whose history is the chain of the commits 1..new, all stored loose, with
\* the row the table holds for the branch, and with a step limit.  The
\* limit of the code is MaxSteps; the calls here take limits of up to
\* MaxLimit steps on histories of up to MaxHistory commits, so that
\* histories shorter than, as long as and longer than the limit occur.
CountCalls ==
    {[op |-> "commit_count", old |-> old, new |-> new, row |-> row,
      max_steps |-> m] :
        new \in 1..MaxHistory, old \in 0..MaxHistory, m \in 1..MaxLimit,
        row \in {NoRow} \cup {Row(h, h, h) : h \in 1..MaxHistory}}

\* the count build_branch_metadata stores in the row
CountCall ==
    /\ inp.op = "commit_count"
    /\ out.op = "none"
    /\ out' = [op |-> "commit_count", arg |-> inp,
               result |-> CommitCountWithin(Store, inp.old, inp.new, inp.row,
                                            inp.max_steps)]
    /\ UNCHANGED <<refs, packedRefs, loose, packs, idxs, meta, pc, body,
                   updates, packData, cur, resp, existing, packPut, before,
                   lastPut, pushes, overlap, cacheVars, advVars, storeVars,
                   callVars>>

InitCount ==
    /\ refs = [k \in RefKeys |-> Absent]
    /\ packedRefs = None
    /\ packs = {}
    /\ idxs = [p \in {} |-> ZeroFanout]
    /\ InitRequests
    /\ overlap = FALSE
    /\ redisOn = FALSE
    /\ inp \in {c \in CountCalls : c.old < c.new}
    /\ loose = 1..inp.new

NextCount == CountCall

SpecCount == InitCount /\ [][NextCount]_vars

\* no incremental count applies to the call: there is no row, or the row is
\* not at old-oid, or old-oid is the zero OID, or old-oid lies more than the
\* limit behind new-oid
NoIncrement(call) ==
    \/ ~call.row.present
    \/ call.row.head_oid # call.old
    \/ call.old = Zero
    \/ call.new - call.old > call.max_steps

\* C39: when no incremental count applies, the stored commit_count is the
\* number of commits on the parent chain from new-oid to the root, counted
\* up to the cap: a history longer than the cap stores the cap, and a
\* history within the cap stores its exact length.
C39_CountUpToCap ==
    (out.op = "commit_count" /\ NoIncrement(out.arg)) =>
        out.result = IF out.arg.new > out.arg.max_steps
                     THEN out.arg.max_steps
                     ELSE out.arg.new

\* =================================================================
\* The git routes and who may use them (routes/git.rs of api and api_old)
\* =================================================================

\* the two servers of the repository
Servers == {"api", "api_old"}

\* AuthUser: nobody, the owner of the repository, or another user
AuthUsers == {None, Some("owner"), Some("other")}

\* a response without a git payload: its status and whether it carries the
\* header WWW-Authenticate: Basic realm="gitbruv"
Answer(status, challenge) == [status |-> status, challenge |-> challenge]

\* unauthorized_basic (api_old)
UnauthorizedBasic == Answer(401, TRUE)

\* Err((StatusCode::UNAUTHORIZED, "Unauthorized".to_string())) and the
\* error of require_auth: the status and the text, no header
UnauthorizedPlain == Answer(401, FALSE)

\* Err((StatusCode::NOT_FOUND, "Repository not found".to_string()))
RepoNotFound == Answer(404, FALSE)

\* the requests for the repository: a push, or an info/refs request for a
\* service
RouteRequests ==
    {[server |-> s, route |-> "receive_pack", service |-> "git-receive-pack",
      auth |-> a, visibility |-> v] :
        s \in Servers, a \in AuthUsers, v \in {"public", "private"}}
    \cup {[server |-> s, route |-> "info_refs", service |-> sv, auth |-> a,
           visibility |-> v] :
            s \in Servers, sv \in Services, a \in AuthUsers,
            v \in {"public", "private"}}

\* require_auth fails, or the user is not the owner of the repository
NotOwner(req) == req.auth # Some("owner")

\* receive_pack and info_refs: the answer to a request that is turned away,
\* none when the request goes on to the handler
Refusal(req) ==
    IF req.service = "git-receive-pack"
    THEN IF ~NotOwner(req) THEN None
         ELSE IF req.server = "api_old" THEN Some(UnauthorizedBasic)
         ELSE Some(UnauthorizedPlain)
    ELSE IF req.visibility = "private"
    THEN IF ~IsSome(req.auth) THEN Some(UnauthorizedPlain)
         ELSE IF NotOwner(req) THEN Some(RepoNotFound)
         ELSE None
    ELSE None

\* receive_pack and info_refs: the request is turned away before the
\* handler is called, or it goes on to handle_receive_pack or to
\* get_refs_advertisement
Route(req) ==
    IF IsSome(Refusal(req))
    THEN /\ out' = [op |-> "route", arg |-> req.route,
                    result |-> Val(Refusal(req))]
         /\ UNCHANGED <<refs, packedRefs, loose, packs, idxs, meta, pc, body,
                        updates, packData, cur, resp, existing, packPut,
                        before, lastPut, pushes, overlap, cacheVars, advVars,
                        storeVars, callVars>>
    ELSE IF req.route = "receive_pack" THEN BeginOnce
    ELSE AdvBegin(RepoPrefix, req.service)

\* One push of one command and info/refs requests, of the owner, of other
\* users and of clients without credentials.
InitRoute == InitRepo /\ overlap = TRUE /\ redisOn = FALSE /\ inp = NoQuery

NextRoute ==
    \/ \E req \in RouteRequests : Route(req)
    \/ PutPack("r1")
    \/ PutIdx("r1")
    \/ RefStep("r1")
    \/ MetaSkip("r1")
    \/ MetaDelete("r1")
    \/ MetaRead("r1")
    \/ MetaWrite("r1")
    \/ AdvList
    \/ AdvInsert

SpecRoute == InitRoute /\ [][NextRoute]_vars

\* a git-receive-pack request, or an info/refs request for that service
ForPush(req) == req.service = "git-receive-pack"

\* C40: a git-receive-pack request, and an info/refs request for service
\* git-receive-pack, that is unauthenticated or authenticated as someone
\* other than the repository owner is answered 401 with a
\* `WWW-Authenticate: Basic` challenge and changes no pack, index, ref,
\* metadata row or cache key.
C40_DeniedPushIsChallenged ==
    [][\A req \in RouteRequests :
          (ForPush(req) /\ NotOwner(req) /\ Route(req))
          => /\ out'.op = "route"
             /\ out'.result = UnauthorizedBasic
             /\ UNCHANGED <<blobVars, meta, rowTree, cache, infoRefs>>]_vars

====
